---- MODULE Spec2Model ----
(***************************************************************************)
(* A model of the EpochManager repository: the lock-free AtomicStack, the  *)
(* local-write epoch manager (LocalWriteEM), the global-counter epoch      *)
(* manager (EpochManager of GlobalWriteEM.h) and the chunked allocator     *)
(* VarLenPool.                                                             *)
(*                                                                         *)
(* Heap objects are numbered in allocation order (a fresh number for each  *)
(* "new"), Null is 0.  When a new epoch node takes the address of a        *)
(* deleted one, the pointers threads still hold to the deleted node are    *)
(* renumbered to the new node (CreateNewEpoch_Reuse).  Every atomic load,  *)
(* store, CAS or fetch_add of the source is one step of the thread that    *)
(* executes it; thread-local work is folded into the neighbouring step.    *)
(* A thread that dereferences a null pointer stops ("crashed").  A read of *)
(* freed memory either stops the thread (a sanitized build) or yields the  *)
(* stale contents of the object.                                           *)
(***************************************************************************)
EXTENDS Integers, Sequences, FiniteSets, TLC

\* ------------------------------------------------------------------ bounds
MaxNodes == 3      \* stack nodes / payloads ever allocated
MaxVal == 3        \* values pushed are 1..MaxVal
MaxPops == 3       \* Pop calls started in the concurrent stack specification
MaxCores == 2      \* core_num of a LocalWriteEM is 1..MaxCores
MaxEpoch == 2      \* the collector stops advancing the epoch counter here
MaxRetire == 2     \* AddGarbageNode calls (GarbageNode wrappers ever allocated)
MaxEpochNodes == 3 \* EpochNode objects an EpochManager ever allocates
MaxChunks == 3     \* Chunk objects a VarLenPool ever links
MaxMems == 3       \* VarLenPool::Allocate calls started
ChunkSize == 32    \* chunk_size given to the VarLenPool constructor, in bytes

\* GlobalWriteEM.h uses MAX_THREAD_COUNT (lines 578, 584) without defining it;
\* it stands for a number above the number of threads.
MAX_THREAD_COUNT == 8

Null == 0
Nodes == 1..MaxNodes
Values == 1..MaxVal
Threads == {0, 1, 2}
StackThreads == {0, 1}
Workers == {0, 1}
GNodes == 1..MaxRetire
Cores == 0..(MaxCores - 1)
Payloads == 1..MaxRetire
EpochNodes == 1..MaxEpochNodes
Chunks == 1..MaxChunks
PoolThreads == {0, 1}

\* VarLenPool::ALIGNMENT, line 184, and sizeof(Mem), lines 43-48: one pointer.
ALIGNMENT == 8

MemSize == 8

\* Chunk(), line 89: delete_epoch starts as (uint64_t)-1.
NoEpoch == -1

\* Sizes asked of VarLenPool::Allocate: one that leaves room in its chunk, one
\* that fills most of a chunk, chunk_size itself, and one above chunk_size.
ReqSizes == {1, ChunkSize \div 2 - 4, ChunkSize, ChunkSize + 1}

VARIABLES
  pc,        \* control point of every thread
  \* ---- AtomicStack
  head_p,    \* AtomicStack::head_p
  next_p,    \* Node::next_p of every node
  data,      \* Node::data of every node
  nalloc,    \* number of nodes allocated so far
  node_p,    \* Push: local node_p of every thread
  old_p,     \* Push/Pop: local old_p of every thread
  new_p,     \* Pop: local new_p of every thread
  \* ---- history of the stack
  pushed,    \* nodes in the order their Push CAS succeeded
  popped,    \* nodes in the order their Pop CAS succeeded
  outs,      \* the values Pop stored into its reference argument, in order
  crashed,   \* threads that dereferenced a null pointer
  \* ---- LocalWriteEM
  core_num,          \* template argument core_num
  core_counter,      \* per_core_counter_list
  epoch_counter,     \* epoch_counter
  garbage_head_p,    \* garbage_head_p
  gn_epoch,          \* GarbageNode::deleted_epoch of every wrapper
  gn_garbage,        \* GarbageNode::garbage_p of every wrapper
  gn_next,           \* GarbageNode::next_p of every wrapper
  galloc,            \* number of wrappers allocated so far
  gn_deleted,        \* wrappers that were deleted
  exited_flag,       \* exited_flag
  ann_epoch,         \* AnnounceEnter: the epoch a thread loaded
  gn_p,              \* AddGarbageNode: local gn_p of every thread
  gc_pc,             \* control point of the GC thread (ThreadFunc)
  gc_i,              \* DoGC: loop index i
  min_epoch,         \* DoGC: local min_epoch
  current_node_p,    \* DoGC: local current_node_p
  next_node_p,       \* DoGC: local next_node_p
  main_pc,           \* control point of the thread that owns the manager
  \* ---- EpochManager (GlobalWriteEM.h)
  head_epoch_p,          \* head_epoch_p
  current_epoch_p,       \* current_epoch_p
  active_thread_count,   \* EpochNode::active_thread_count of every epoch node
  garbage_list_p,        \* EpochNode::garbage_list_p: the payloads linked, newest first
  en_next,               \* EpochNode::next_p of every epoch node
  ealloc,                \* number of epoch nodes allocated so far
  en_deleted,            \* epoch nodes that were deleted
  em_exited_flag,        \* exited_flag
  ce_pc,                 \* control point of the cleaner thread / of ClearEpoch
  em_pc,                 \* control point of the thread that owns the manager
  epoch_p,               \* JoinEpoch: local epoch_p, then the handle the worker holds
  add_epoch_p,           \* AddGarbageNode: local epoch_p of every thread
  garbage_node_p,        \* AddGarbageNode: the payload of the local garbage_node_p
  garbage_next_p,        \* AddGarbageNode: garbage_node_p->next_p (the head it expects)
  \* ---- history of the managers
  freed,             \* per payload, the number of times it was freed
  retired,           \* payloads handed to AddGarbageNode
  inOp,              \* threads inside an operation of a manager
  stillIn,           \* per payload, the threads inside an operation since before it was retired
  \* ---- VarLenPool
  appending_tail_p,  \* VarLenPool::appending_tail_p
  nchunk,            \* number of chunks linked so far
  header,            \* Chunk::header of every chunk: ref_count and offset
  chunk_next_p,      \* Chunk::next_p of every chunk
  chunk_cap,         \* end_data - data of every chunk
  delete_epoch,      \* Chunk::delete_epoch of every chunk
  pool_sz,           \* Allocate: local sz of every thread, rounded
  pool_chunk_p,      \* Allocate: local chunk_p of every thread
  expected_header,   \* Chunk::Allocate: expected_header; Free: header
  tail_p,            \* AllocateChunk: the tail it read through appending_tail_p
  mems,              \* the allocations made, in order: chunk, offset, size, state
  free_p             \* Free: the allocation every thread is freeing

stackVars == <<head_p, next_p, data, nalloc, node_p, old_p, new_p,
               pushed, popped, outs, crashed>>

lemVars == <<core_num, core_counter, epoch_counter, garbage_head_p, gn_epoch,
             gn_garbage, gn_next, galloc, gn_deleted, exited_flag,
             ann_epoch, gn_p, gc_pc, gc_i, min_epoch, current_node_p,
             next_node_p, main_pc>>

gemVars == <<head_epoch_p, current_epoch_p, active_thread_count, garbage_list_p,
             en_next, ealloc, en_deleted, em_exited_flag, ce_pc, em_pc,
             epoch_p, add_epoch_p, garbage_node_p, garbage_next_p>>

histVars == <<freed, retired, inOp, stillIn>>

poolVars == <<appending_tail_p, nchunk, header, chunk_next_p, chunk_cap,
              delete_epoch, pool_sz, pool_chunk_p, expected_header, tail_p,
              mems, free_p>>

vars == <<pc, stackVars, lemVars, gemVars, histVars, poolVars>>

\* What the operations of the stack, of LocalWriteEM and of EpochManager
\* leave alone.
nonStack == <<lemVars, gemVars, histVars, poolVars>>

nonLEM == <<stackVars, gemVars, poolVars>>

nonGEM == <<stackVars, lemVars, poolVars>>

nonPool == <<stackVars, lemVars, gemVars, histVars>>

\* ------------------------------------------------------------ AtomicStack

InitStack ==
  /\ head_p = Null
  /\ next_p = [n \in Nodes |-> Null]
  /\ data = [n \in Nodes |-> 0]
  /\ nalloc = 0
  /\ node_p = [t \in Threads |-> Null]
  /\ old_p = [t \in Threads |-> Null]
  /\ new_p = [t \in Threads |-> Null]
  /\ pushed = <<>>
  /\ popped = <<>>
  /\ outs = <<>>
  /\ crashed = {}

\* The nodes linked from p through next_p, p first.
RECURSIVE Chain(_, _)
Chain(p, fuel) ==
  IF p = Null \/ fuel = 0 THEN <<>> ELSE <<p>> \o Chain(next_p[p], fuel - 1)

Linked == Chain(head_p, MaxNodes + 1)

Range(s) == {s[i] : i \in 1..Len(s)}

\* Push, line 69: new Node{data, head_p.load()}. A mutant leaves next_p null.
NewNodeNext_NoLink == Null

NewNodeNext == head_p

Push_New(t, v, at) ==
  /\ pc[t] = at
  /\ nalloc < MaxNodes
  /\ nalloc' = nalloc + 1
  /\ data' = [data EXCEPT ![nalloc + 1] = v]
  /\ next_p' = [next_p EXCEPT ![nalloc + 1] = NewNodeNext]
  /\ node_p' = [node_p EXCEPT ![t] = nalloc + 1]
  /\ pc' = [pc EXCEPT ![t] = "push_load"]
  /\ UNCHANGED <<head_p, old_p, new_p, pushed, popped, outs, crashed>>
  /\ UNCHANGED nonStack

\* Push, line 70: old_p = head_p.load()
Push_Load(t) ==
  /\ pc[t] = "push_load"
  /\ old_p' = [old_p EXCEPT ![t] = head_p]
  /\ pc' = [pc EXCEPT ![t] = "push_cas"]
  /\ UNCHANGED <<head_p, next_p, data, nalloc, node_p, new_p,
                 pushed, popped, outs, crashed>>
  /\ UNCHANGED nonStack

\* Push, line 75: what a failed compare_exchange_strong leaves in its first
\* argument old_p, the value head_p holds. A mutant leaves old_p as it was.
PushExpected_Keep(t) == old_p[t]

PushExpected(t) == head_p

\* Push, line 75: one compare_exchange_strong(old_p, node_p); a failed CAS
\* reloads old_p and the empty loop body leaves node_p->next_p as it is.
Push_CAS(t, ret) ==
  /\ pc[t] = "push_cas"
  /\ IF head_p = old_p[t]
       THEN /\ head_p' = node_p[t]
            /\ pushed' = Append(pushed, node_p[t])
            /\ pc' = [pc EXCEPT ![t] = ret]
            /\ old_p' = [old_p EXCEPT ![t] = Null]
            /\ node_p' = [node_p EXCEPT ![t] = Null]
       ELSE /\ old_p' = [old_p EXCEPT ![t] = PushExpected(t)]
            /\ UNCHANGED <<head_p, pushed, pc, node_p>>
  /\ UNCHANGED <<next_p, data, nalloc, new_p, popped, outs, crashed>>
  /\ UNCHANGED nonStack

\* Pop, line 86: old_p = head_p.load()
Pop_Load(t, at) ==
  /\ pc[t] = at
  /\ old_p' = [old_p EXCEPT ![t] = head_p]
  /\ pc' = [pc EXCEPT ![t] = "pop_next"]
  /\ UNCHANGED <<head_p, next_p, data, nalloc, node_p, new_p,
                 pushed, popped, outs, crashed>>
  /\ UNCHANGED nonStack

\* Pop, lines 87 and 93: new_p = old_p->next_p, with no test of old_p.
Pop_Next(t) ==
  /\ pc[t] = "pop_next"
  /\ IF old_p[t] = Null
       THEN /\ crashed' = crashed \cup {t}
            /\ pc' = [pc EXCEPT ![t] = "crashed"]
            /\ UNCHANGED new_p
       ELSE /\ new_p' = [new_p EXCEPT ![t] = next_p[old_p[t]]]
            /\ pc' = [pc EXCEPT ![t] = "pop_cas"]
            /\ UNCHANGED crashed
  /\ UNCHANGED <<head_p, next_p, data, nalloc, node_p, old_p,
                 pushed, popped, outs>>
  /\ UNCHANGED nonStack

\* Pop, line 92: the value the CAS installs. A mutant leaves the head in place.
PopNewHead_Keep(t) == old_p[t]

PopNewHead(t) == new_p[t]

\* Pop, line 92: one compare_exchange_strong(old_p, new_p)
Pop_CAS(t) ==
  /\ pc[t] = "pop_cas"
  /\ IF head_p = old_p[t]
       THEN /\ head_p' = PopNewHead(t)
            /\ popped' = Append(popped, old_p[t])
            /\ pc' = [pc EXCEPT ![t] = "pop_data"]
            /\ UNCHANGED old_p
       ELSE /\ old_p' = [old_p EXCEPT ![t] = head_p]
            /\ pc' = [pc EXCEPT ![t] = "pop_next"]
            /\ UNCHANGED <<head_p, popped>>
  /\ UNCHANGED <<next_p, data, nalloc, node_p, new_p, pushed, outs, crashed>>
  /\ UNCHANGED nonStack

\* Pop, line 96: data = old_p->data
Pop_Data(t, ret) ==
  /\ pc[t] = "pop_data"
  /\ outs' = Append(outs, data[old_p[t]])
  /\ old_p' = [old_p EXCEPT ![t] = Null]
  /\ new_p' = [new_p EXCEPT ![t] = Null]
  /\ pc' = [pc EXCEPT ![t] = ret]
  /\ UNCHANGED <<head_p, next_p, data, nalloc, node_p, pushed, popped, crashed>>
  /\ UNCHANGED nonStack

\* Nothing was retired, nobody is inside an operation.
InitHist ==
  /\ freed = [p \in Nodes |-> 0]
  /\ retired = {}
  /\ inOp = {}
  /\ stillIn = [p \in Nodes |-> {}]

\* EpochManager(), lines 113-145: one epoch node, both head and current.
InitGEM ==
  /\ head_epoch_p = 1
  /\ current_epoch_p = 1
  /\ active_thread_count = [e \in EpochNodes |-> 0]
  /\ garbage_list_p = [e \in EpochNodes |-> <<>>]
  /\ en_next = [e \in EpochNodes |-> Null]
  /\ ealloc = 1
  /\ en_deleted = {}
  /\ em_exited_flag = FALSE
  /\ ce_pc = "none"
  /\ em_pc = "init"
  /\ epoch_p = [t \in Threads |-> Null]
  /\ add_epoch_p = [t \in Threads |-> Null]
  /\ garbage_node_p = [t \in Threads |-> Null]
  /\ garbage_next_p = [t \in Threads |-> Null]

\* -------------------------------------------------------------- VarLenPool

\* VarLenPool(p_chunk_size), lines 255-265, and Chunk(sz), lines 75-92: one
\* chunk of chunk_size bytes, empty, both scanning head and appending tail.
InitPool ==
  /\ appending_tail_p = 1
  /\ nchunk = 1
  /\ header = [c \in Chunks |-> [ref_count |-> 0, offset |-> 0]]
  /\ chunk_next_p = [c \in Chunks |-> Null]
  /\ chunk_cap = [c \in Chunks |-> IF c = 1 THEN ChunkSize ELSE 0]
  /\ delete_epoch = [c \in Chunks |-> NoEpoch]
  /\ pool_sz = [t \in Threads |-> 0]
  /\ pool_chunk_p = [t \in Threads |-> Null]
  /\ expected_header = [t \in Threads |-> [ref_count |-> 0, offset |-> 0]]
  /\ tail_p = [t \in Threads |-> Null]
  /\ mems = <<>>
  /\ free_p = [t \in Threads |-> 0]

\* Allocate, line 193: sz = (sz + ALIGNMENT - 1) & ~(ALIGNMENT - 1), the low
\* bits of sz + 7 cleared.
RoundUp(sz) == (sz + ALIGNMENT - 1) - ((sz + ALIGNMENT - 1) % ALIGNMENT)

\* Allocate, lines 193-196: round the size, load the tail chunk.
Allocate_Load(t, sz) ==
  /\ pc[t] = "idle"
  /\ Len(mems) + Cardinality({u \in PoolThreads :
         pc[u] \notin {"idle", "fr_cas"}}) < MaxMems
  /\ pool_sz' = [pool_sz EXCEPT ![t] = RoundUp(sz)]
  /\ pool_chunk_p' = [pool_chunk_p EXCEPT ![t] = appending_tail_p]
  /\ pc' = [pc EXCEPT ![t] = "ca_load"]
  /\ UNCHANGED <<appending_tail_p, nchunk, header, chunk_next_p, chunk_cap,
                 delete_epoch, expected_header, tail_p, mems, free_p>>
  /\ UNCHANGED nonPool

\* Allocate, line 198, into Chunk::Allocate, line 102: header.load() of
\* chunk_p.  chunk_p is null after a failed AllocateChunk (line 204 only
\* declares a second chunk_p): the load through it stops the thread.
ChunkAllocate_Load(t) ==
  /\ pc[t] = "ca_load"
  /\ IF pool_chunk_p[t] = Null
       THEN /\ pc' = [pc EXCEPT ![t] = "null_deref"]
            /\ UNCHANGED expected_header
       ELSE /\ expected_header' =
                 [expected_header EXCEPT ![t] = header[pool_chunk_p[t]]]
            /\ pc' = [pc EXCEPT ![t] = "ca_cas"]
  /\ UNCHANGED <<appending_tail_p, nchunk, header, chunk_next_p, chunk_cap,
                 delete_epoch, pool_sz, pool_chunk_p, tail_p, mems, free_p>>
  /\ UNCHANGED nonPool

\* Chunk::Allocate, lines 116-117: the header to install.  A mutant forgets
\* the back-pointer in front of the allocation.
NewHeader_NoMem(h, sz) ==
  [ref_count |-> h.ref_count + 1, offset |-> h.offset + sz]

NewHeader(h, sz) ==
  [ref_count |-> h.ref_count + 1, offset |-> h.offset + sz + MemSize]

\* Chunk::Allocate, lines 109-113: the chunk has no room for sz more bytes and
\* their back-pointer, the next base lying past end_data.  (Line 109 as
\* written leaves "data +" out of next_base; the comparison is the one with
\* end_data that its comment describes.)  A mutant leaves the back-pointer
\* out of the test.
ChunkFull_NoMem(c, h, sz) == h.offset + sz > chunk_cap[c]

ChunkFull(c, h, sz) == h.offset + sz + MemSize > chunk_cap[c]

\* Chunk::Allocate, lines 105-134, one turn of the loop: return nullptr from
\* a full chunk, else CAS the header; a success returns the memory after the
\* back-pointer, a failure leaves the current header in expected_header.
ChunkAllocate_CAS(t) ==
  /\ pc[t] = "ca_cas"
  /\ LET c == pool_chunk_p[t]
         h == expected_header[t]
     IN IF ChunkFull(c, h, pool_sz[t])
          THEN /\ pc' = [pc EXCEPT ![t] = "ac_load"]
               /\ UNCHANGED <<header, mems, expected_header>>
          ELSE IF header[c] = h
            THEN /\ header' = [header EXCEPT ![c] = NewHeader(h, pool_sz[t])]
                 /\ mems' = Append(mems, [chunk_p |-> c, offset |-> h.offset,
                                          sz |-> pool_sz[t], st |-> "live"])
                 /\ pc' = [pc EXCEPT ![t] = "idle"]
                 /\ UNCHANGED expected_header
            ELSE /\ expected_header' = [expected_header EXCEPT ![t] = header[c]]
                 /\ UNCHANGED <<header, mems, pc>>
  /\ UNCHANGED <<appending_tail_p, nchunk, chunk_next_p, chunk_cap,
                 delete_epoch, pool_sz, pool_chunk_p, tail_p, free_p>>
  /\ UNCHANGED nonPool

\* AllocateChunk, lines 154-160: the size of the chunk to create.
NewChunkSize(sz) == IF sz > ChunkSize THEN sz + MemSize ELSE ChunkSize

\* AllocateChunk, lines 163-169: new Chunk, then the tail is read through
\* appending_tail_p for the CAS on its next_p.
AllocateChunk_Load(t) ==
  /\ pc[t] = "ac_load"
  /\ nchunk < MaxChunks
  /\ tail_p' = [tail_p EXCEPT ![t] = appending_tail_p]
  /\ pc' = [pc EXCEPT ![t] = "ac_cas"]
  /\ UNCHANGED <<appending_tail_p, nchunk, header, chunk_next_p, chunk_cap,
                 delete_epoch, pool_sz, pool_chunk_p, expected_header, mems,
                 free_p>>
  /\ UNCHANGED nonPool

\* AllocateChunk, line 169: the comparison of compare_exchange_strong, next_p
\* of the tail against nullptr.  A mutant stores without comparing.
NextIsNull_Always(c) == TRUE

NextIsNull(c) == chunk_next_p[c] = Null

\* VarLenPool(), line 258: the first chunk, never reassigned.
scanning_head_p == 1

\* AllocateChunk, lines 168-174, and Allocate, lines 200-207: CAS the new
\* chunk onto the tail's next_p.  On failure the chunk is deleted, nullptr is
\* returned and stored into Allocate's chunk_p; the reload of line 204 goes to
\* a new variable of the inner block, so the loop continues with nullptr.
AllocateChunk_CAS(t) ==
  /\ pc[t] = "ac_cas"
  /\ IF NextIsNull(tail_p[t]) /\ nchunk < MaxChunks
       THEN /\ nchunk' = nchunk + 1
            /\ chunk_cap' = [chunk_cap EXCEPT ![nchunk + 1] = NewChunkSize(pool_sz[t])]
            /\ chunk_next_p' = [chunk_next_p EXCEPT ![tail_p[t]] = nchunk + 1]
            /\ pool_chunk_p' = [pool_chunk_p EXCEPT ![t] = nchunk + 1]
            /\ pc' = [pc EXCEPT ![t] = "ac_store"]
       ELSE /\ pool_chunk_p' = [pool_chunk_p EXCEPT ![t] = Null]
            /\ pc' = [pc EXCEPT ![t] = "ca_load"]
            /\ UNCHANGED <<nchunk, chunk_cap, chunk_next_p>>
  /\ UNCHANGED <<appending_tail_p, header, delete_epoch, pool_sz,
                 expected_header, tail_p, mems, free_p>>
  /\ UNCHANGED nonPool

\* AllocateChunk, lines 179-181: publish the new chunk as the tail and return
\* it; Allocate retries on it.
AllocateChunk_Store(t) ==
  /\ pc[t] = "ac_store"
  /\ appending_tail_p' = pool_chunk_p[t]
  /\ pc' = [pc EXCEPT ![t] = "ca_load"]
  /\ UNCHANGED <<nchunk, header, chunk_next_p, chunk_cap, delete_epoch,
                 pool_sz, pool_chunk_p, expected_header, tail_p, mems, free_p>>
  /\ UNCHANGED nonPool

\* Free, lines 226-228, of the allocation i, which was returned and not freed
\* before: find the chunk through the back-pointer and load its header.
Free_Load(t, i) ==
  /\ pc[t] = "idle"
  /\ i \in 1..Len(mems)
  /\ mems[i].st = "live"
  /\ mems' = [mems EXCEPT ![i].st = "freeing"]
  /\ free_p' = [free_p EXCEPT ![t] = i]
  /\ expected_header' =
       [expected_header EXCEPT ![t] = header[mems[i].chunk_p]]
  /\ pc' = [pc EXCEPT ![t] = "fr_cas"]
  /\ UNCHANGED <<appending_tail_p, nchunk, header, chunk_next_p, chunk_cap,
                 delete_epoch, pool_sz, pool_chunk_p, tail_p>>
  /\ UNCHANGED nonPool

\* Free, lines 238-240: the header to install.  A mutant leaves the count.
FreeHeader_Keep(h) == [ref_count |-> h.ref_count, offset |-> h.offset]

FreeHeader(h) == [ref_count |-> h.ref_count - 1, offset |-> h.offset]

\* Free, lines 233-249, one turn of the loop: CAS the header with ref_count
\* one less; a failure leaves the current header in header.  Lines 242-243
\* are a comment: delete_epoch is not written.
Free_CAS(t) ==
  /\ pc[t] = "fr_cas"
  /\ LET i == free_p[t]
         c == mems[i].chunk_p
     IN IF header[c] = expected_header[t]
          THEN /\ header' = [header EXCEPT ![c] = FreeHeader(expected_header[t])]
               /\ mems' = [mems EXCEPT ![i].st = "freed"]
               /\ free_p' = [free_p EXCEPT ![t] = 0]
               /\ pc' = [pc EXCEPT ![t] = "idle"]
               /\ UNCHANGED expected_header
          ELSE /\ expected_header' = [expected_header EXCEPT ![t] = header[c]]
               /\ UNCHANGED <<header, mems, free_p, pc>>
  /\ UNCHANGED <<appending_tail_p, nchunk, chunk_next_p, chunk_cap,
                 delete_epoch, pool_sz, pool_chunk_p, tail_p>>
  /\ UNCHANGED nonPool

\* ----------------------------------------------------------- LocalWriteEM

\* LocalWriteEM(), lines 184-206, for a manager of n cores.
InitLEM(n) ==
  /\ core_num = n
  /\ core_counter = [c \in Cores |-> 0]
  /\ epoch_counter = 0
  /\ garbage_head_p = Null
  /\ gn_epoch = [g \in GNodes |-> 0]
  /\ gn_garbage = [g \in GNodes |-> Null]
  /\ gn_next = [g \in GNodes |-> Null]
  /\ galloc = 0
  /\ gn_deleted = {}
  /\ exited_flag = FALSE
  /\ ann_epoch = [t \in Threads |-> 0]
  /\ gn_p = [t \in Threads |-> Null]
  /\ gc_pc = "none"
  /\ gc_i = 0
  /\ min_epoch = 0
  /\ current_node_p = Null
  /\ next_node_p = Null
  /\ main_pc = "init"

\* em_test.cpp line 134: core_id = id % CoreNum
core_id(t) == t % core_num

\* AnnounceEnter, line 320: epoch_counter->load()
Ann_Load(t, at) ==
  /\ pc[t] = at
  /\ main_pc = "run"
  /\ ann_epoch' = [ann_epoch EXCEPT ![t] = epoch_counter]
  /\ pc' = [pc EXCEPT ![t] = "ann_store"]
  /\ UNCHANGED <<core_num, core_counter, epoch_counter, garbage_head_p, gn_epoch,
                 gn_garbage, gn_next, galloc, gn_deleted, exited_flag, freed,
                 gn_p, gc_pc, gc_i, min_epoch, current_node_p, next_node_p,
                 main_pc, histVars>>
  /\ UNCHANGED nonLEM

\* AnnounceEnter, line 320: the value stored into the slot, the epoch counter
\* as the thread loaded it.  A mutant announces the epoch after it.
AnnouncedEpoch_Next(t) == ann_epoch[t] + 1

AnnouncedEpoch(t) == ann_epoch[t]

\* AnnounceEnter, line 320: per_core_counter_list[core_id]->store(...)
Ann_Store(t, ret) ==
  /\ pc[t] = "ann_store"
  /\ core_counter' = [core_counter EXCEPT ![core_id(t)] = AnnouncedEpoch(t)]
  /\ ann_epoch' = [ann_epoch EXCEPT ![t] = 0]
  /\ inOp' = inOp \cup {t}
  /\ stillIn' = [p \in Nodes |-> stillIn[p] \ {t}]
  /\ pc' = [pc EXCEPT ![t] = ret]
  /\ UNCHANGED <<core_num, epoch_counter, garbage_head_p, gn_epoch,
                 gn_garbage, gn_next, galloc, gn_deleted, exited_flag, freed,
                 gn_p, gc_pc, gc_i, min_epoch, current_node_p,
                 next_node_p, main_pc, retired>>
  /\ UNCHANGED nonLEM

\* AddGarbageNode, line 341: new GarbageNode{garbage_p, epoch_counter->load()}
Add_New(t, p, at) ==
  /\ pc[t] = at
  /\ main_pc = "run"
  /\ galloc < MaxRetire
  /\ galloc' = galloc + 1
  /\ gn_epoch' = [gn_epoch EXCEPT ![galloc + 1] = epoch_counter]
  /\ gn_garbage' = [gn_garbage EXCEPT ![galloc + 1] = p]
  /\ gn_p' = [gn_p EXCEPT ![t] = galloc + 1]
  /\ retired' = retired \cup {p}
  /\ stillIn' = [stillIn EXCEPT ![p] = inOp]
  /\ pc' = [pc EXCEPT ![t] = "link_load"]
  /\ UNCHANGED <<core_num, core_counter, epoch_counter, garbage_head_p, gn_next,
                 gn_deleted, exited_flag, freed, ann_epoch, gc_pc, gc_i,
                 min_epoch, current_node_p, next_node_p, main_pc,
                 inOp>>
  /\ UNCHANGED nonLEM

\* GarbageNode::LinkTo, line 123, read as next_p = head_p->load(): whatever
\* next_p holds before the loop, the CAS of line 128 succeeds only when it
\* equals the head and reloads it otherwise.
Link_Load(t) ==
  /\ pc[t] = "link_load"
  /\ gn_next' = [gn_next EXCEPT ![gn_p[t]] = garbage_head_p]
  /\ pc' = [pc EXCEPT ![t] = "link_cas"]
  /\ UNCHANGED <<core_num, core_counter, epoch_counter, garbage_head_p, gn_epoch,
                 gn_garbage, galloc, gn_deleted, exited_flag, freed, ann_epoch,
                 gn_p, gc_pc, gc_i, min_epoch, current_node_p, next_node_p,
                 main_pc, histVars>>
  /\ UNCHANGED nonLEM

\* GarbageNode::LinkTo, line 128: one compare_exchange_strong(next_p, this)
Link_CAS(t, ret) ==
  /\ pc[t] = "link_cas"
  /\ IF garbage_head_p = gn_next[gn_p[t]]
       THEN /\ garbage_head_p' = gn_p[t]
            /\ gn_p' = [gn_p EXCEPT ![t] = Null]
            /\ pc' = [pc EXCEPT ![t] = ret]
            /\ UNCHANGED gn_next
       ELSE /\ gn_next' = [gn_next EXCEPT ![gn_p[t]] = garbage_head_p]
            /\ UNCHANGED <<garbage_head_p, gn_p, pc>>
  /\ UNCHANGED <<core_num, core_counter, epoch_counter, gn_epoch,
                 gn_garbage, galloc, gn_deleted, exited_flag, freed, ann_epoch,
                 gc_pc, gc_i, min_epoch, current_node_p, next_node_p,
                 main_pc, histVars>>
  /\ UNCHANGED nonLEM

\* StartGCThread, lines 483-493
StartGCThread ==
  /\ main_pc = "init"
  /\ exited_flag = FALSE
  /\ gc_pc = "none"
  /\ gc_pc' = "check"
  /\ main_pc' = "run"
  /\ UNCHANGED <<pc, core_num, core_counter, epoch_counter, garbage_head_p,
                 gn_epoch, gn_garbage, gn_next, galloc, gn_deleted, exited_flag,
                 freed, ann_epoch, gn_p, gc_i, min_epoch, current_node_p,
                 next_node_p, histVars>>
  /\ UNCHANGED nonLEM

\* HasExited, lines 282-284: exited_flag.load().  A mutant never sees the flag.
HasExited_Never == FALSE

HasExited == exited_flag

\* ThreadFunc, line 459: while(em->HasExited() == false)
GC_Check ==
  /\ gc_pc = "check"
  /\ gc_pc' = IF HasExited THEN "exited" ELSE "goto"
  /\ UNCHANGED <<pc, core_num, core_counter, epoch_counter, garbage_head_p,
                 gn_epoch, gn_garbage, gn_next, galloc, gn_deleted, exited_flag,
                 freed, ann_epoch, gn_p, gc_i, min_epoch, current_node_p,
                 next_node_p, main_pc, histVars>>
  /\ UNCHANGED nonLEM

\* GotoNextEpoch, line 367, called at line 460
GotoNextEpoch ==
  /\ gc_pc = "goto"
  /\ epoch_counter < MaxEpoch
  /\ epoch_counter' = epoch_counter + 1
  /\ gc_pc' = "gc_min"
  /\ UNCHANGED <<pc, gc_i, core_num, core_counter, garbage_head_p,
                 gn_epoch, gn_garbage, gn_next, galloc, gn_deleted, exited_flag,
                 freed, ann_epoch, gn_p, min_epoch, current_node_p,
                 next_node_p, main_pc, histVars>>
  /\ UNCHANGED nonLEM

\* DoGC, lines 396-406: one per_core_counter_list[i]->load() of the minimum scan
DoGC_ReadSlot ==
  /\ gc_pc = "gc_min"
  /\ min_epoch' = IF gc_i = 0 \/ core_counter[gc_i] < min_epoch
                    THEN core_counter[gc_i] ELSE min_epoch
  /\ gc_i' = IF gc_i + 1 < core_num THEN gc_i + 1 ELSE 0
  /\ gc_pc' = IF gc_i + 1 < core_num THEN "gc_min" ELSE "gc_head"
  /\ UNCHANGED <<pc, core_num, core_counter, epoch_counter, garbage_head_p,
                 gn_epoch, gn_garbage, gn_next, galloc, gn_deleted, exited_flag,
                 freed, ann_epoch, gn_p, current_node_p,
                 next_node_p, main_pc, histVars>>
  /\ UNCHANGED nonLEM

\* DoGC, lines 413-418: load the head, return if the list is empty
DoGC_Head ==
  /\ gc_pc = "gc_head"
  /\ IF garbage_head_p = Null
       THEN /\ gc_pc' = "check"
            /\ min_epoch' = 0
            /\ UNCHANGED <<current_node_p, next_node_p>>
       ELSE /\ current_node_p' = garbage_head_p
            /\ next_node_p' = gn_next[garbage_head_p]
            /\ gc_pc' = "gc_loop"
            /\ UNCHANGED min_epoch
  /\ UNCHANGED <<pc, core_num, core_counter, epoch_counter, garbage_head_p,
                 gn_epoch, gn_garbage, gn_next, galloc, gn_deleted, exited_flag,
                 freed, ann_epoch, gn_p, gc_i, main_pc, histVars>>
  /\ UNCHANGED nonLEM

\* DoGC, line 423: the test that decides whether a wrapper is reclaimed. A
\* mutant also reclaims the entries of the minimum epoch itself.
Reclaimable_Le(g) == gn_epoch[g] <= min_epoch

Reclaimable(g) == gn_epoch[g] < min_epoch

\* FreeGarbageNode (line 357) applied to payload p.
FreeCount(p) == [freed EXCEPT ![p] = IF @ < 2 THEN @ + 1 ELSE @]

\* DoGC, line 428: the unlink. A mutant frees without unlinking.
Unlinked_Stay(cur, nxt) == gn_next

Unlinked(cur, nxt) == [gn_next EXCEPT ![cur] = gn_next[nxt]]

\* DoGC, line 434: where the walk goes on after a free, the successor that
\* the unlink gave current_node_p.  A mutant goes on one wrapper further.
NextAfterFree_Skip(cur) ==
  IF gn_next'[cur] = Null THEN Null ELSE gn_next'[gn_next'[cur]]

NextAfterFree(cur) == gn_next'[cur]

\* DoGC, lines 420-441: one iteration of the while loop
DoGC_Loop ==
  /\ gc_pc = "gc_loop"
  /\ IF next_node_p = Null
       THEN /\ gc_pc' = "check"
            /\ current_node_p' = Null
            /\ min_epoch' = 0
            /\ UNCHANGED <<next_node_p, gn_next, freed, gn_deleted>>
       ELSE IF Reclaimable(next_node_p)
         THEN /\ gn_next' = Unlinked(current_node_p, next_node_p)
              /\ freed' = FreeCount(gn_garbage[next_node_p])
              /\ gn_deleted' = gn_deleted \cup {next_node_p}
              /\ next_node_p' = NextAfterFree(current_node_p)
              /\ UNCHANGED <<gc_pc, current_node_p, min_epoch>>
         ELSE /\ current_node_p' = next_node_p
              /\ next_node_p' = gn_next[next_node_p]
              /\ UNCHANGED <<gc_pc, gn_next, freed, gn_deleted, min_epoch>>
  /\ UNCHANGED <<pc, core_num, core_counter, epoch_counter, garbage_head_p,
                 gn_epoch, gn_garbage, galloc, exited_flag, ann_epoch, gn_p,
                 gc_i, main_pc, retired, inOp, stillIn>>
  /\ UNCHANGED nonLEM

\* The worker threads were joined (StartThreads returns) before the manager
\* is destroyed.
Quiescent == \A t \in Threads : pc[t] \in {"idle", "inop", "crashed"}

\* ~LocalWriteEM, lines 215-218: SignalExit() (line 300)
Dtor_SignalExit ==
  /\ main_pc = "run"
  /\ Quiescent
  /\ exited_flag' = TRUE
  /\ main_pc' = "join"
  /\ UNCHANGED <<pc, core_num, core_counter, epoch_counter, garbage_head_p,
                 gn_epoch, gn_garbage, gn_next, galloc, gn_deleted,
                 freed, ann_epoch, gn_p, gc_pc, gc_i, min_epoch, current_node_p,
                 next_node_p, histVars>>
  /\ UNCHANGED nonLEM

\* ~LocalWriteEM, line 220: gc_thread_p->join() returns once ThreadFunc has
\* returned.  A mutant does not wait for the thread.
GCThreadJoined_NoWait == TRUE

GCThreadJoined == gc_pc = "exited"

\* ~LocalWriteEM, line 220: gc_thread_p->join()
Dtor_Join ==
  /\ main_pc = "join"
  /\ GCThreadJoined
  /\ main_pc' = "drain"
  /\ UNCHANGED <<pc, core_num, core_counter, epoch_counter, garbage_head_p,
                 gn_epoch, gn_garbage, gn_next, galloc, gn_deleted, exited_flag,
                 freed, ann_epoch, gn_p, gc_pc, gc_i, min_epoch, current_node_p,
                 next_node_p, histVars>>
  /\ UNCHANGED nonLEM

\* The wrappers linked from g through gn_next, g first.
RECURSIVE GChain(_, _)
GChain(g, fuel) ==
  IF g = Null \/ fuel = 0 THEN <<>> ELSE <<g>> \o GChain(gn_next[g], fuel - 1)

GLinked == GChain(garbage_head_p, MaxRetire + 1)

\* The free counts after FreeGarbageNode ran on the payload of every wrapper of s.
RECURSIVE FreeAll(_, _)
FreeAll(s, f) ==
  IF s = <<>> THEN f
  ELSE FreeAll(Tail(s), [f EXCEPT ![gn_garbage[Head(s)]] = IF @ < 2 THEN @ + 1 ELSE @])

\* FreeAllGarbage, line 246: where the walk starts. A mutant skips the head.
DrainFrom_SkipHead == IF garbage_head_p = Null THEN Null ELSE gn_next[garbage_head_p]

DrainFrom == garbage_head_p

\* FreeAllGarbage, lines 245-263, called at line 230
FreeAllGarbage ==
  /\ main_pc = "drain"
  /\ LET s == GChain(DrainFrom, MaxRetire + 1) IN
       /\ freed' = FreeAll(s, freed)
       /\ gn_deleted' = gn_deleted \cup Range(s)
  /\ garbage_head_p' = Null
  /\ main_pc' = "done"
  /\ UNCHANGED <<pc, core_num, core_counter, epoch_counter,
                 gn_epoch, gn_garbage, gn_next, galloc, exited_flag,
                 ann_epoch, gn_p, gc_pc, gc_i, min_epoch, current_node_p,
                 next_node_p, retired, inOp, stillIn>>
  /\ UNCHANGED nonLEM

\* The payload a worker retires next: a fresh object it removed from the
\* protected structure.
NextPayload == Cardinality(retired) + 1

InitLocal ==
  /\ pc = [t \in Threads |-> "idle"]
  /\ InitStack
  /\ \E n \in 1..MaxCores : InitLEM(n)
  /\ InitGEM
  /\ InitHist
  /\ InitPool

NextLocal ==
  \/ StartGCThread
  \/ GC_Check
  \/ GotoNextEpoch
  \/ DoGC_ReadSlot
  \/ DoGC_Head
  \/ DoGC_Loop
  \/ Dtor_SignalExit
  \/ Dtor_Join
  \/ FreeAllGarbage
  \/ \E t \in Workers :
       \/ Ann_Load(t, "idle")
       \/ Ann_Load(t, "inop")
       \/ Ann_Store(t, "inop")
       \/ Add_New(t, NextPayload, "inop")
       \/ Link_Load(t)
       \/ Link_CAS(t, "inop")

SpecLocal == InitLocal /\ [][NextLocal]_vars

\* ------------------------------------------------------------ specifications

\* Threads of basic_test.cpp's ThreadTest / MixedTest: any thread pushes or
\* pops at any time; the values pushed are distinct, as in the tests.
PopsStarted == Len(popped) + Cardinality({t \in Threads :
                 pc[t] \in {"pop_next", "pop_cas", "crashed"}})

InitStackSpec ==
  /\ pc = [t \in Threads |-> "idle"]
  /\ InitStack
  /\ InitLEM(1)
  /\ InitGEM
  /\ InitHist
  /\ InitPool

NextStack ==
  \E t \in StackThreads :
    \/ Push_New(t, nalloc + 1, "idle")
    \/ Push_Load(t)
    \/ Push_CAS(t, "idle")
    \/ PopsStarted < MaxPops /\ Pop_Load(t, "idle")
    \/ Pop_Next(t)
    \/ Pop_CAS(t)
    \/ Pop_Data(t, "idle")

SpecStack == InitStackSpec /\ [][NextStack]_vars

\* A thread inside Push keeps running: the scheduler does not stop it forever.
PushRuns(t) == Push_Load(t) \/ Push_CAS(t, "idle")

SpecStackLive ==
  InitStackSpec /\ [][NextStack]_vars /\ \A t \in StackThreads : WF_vars(PushRuns(t))

\* basic_test.cpp's BasicTest: one thread pushes v1..vn, then pops n times.
NextLIFO ==
  \/ \E v \in Values : Len(popped) = 0 /\ Push_New(0, v, "idle")
  \/ Push_Load(0)
  \/ Push_CAS(0, "idle")
  \/ Len(popped) < Len(pushed) /\ Pop_Load(0, "idle")
  \/ Pop_Next(0)
  \/ Pop_CAS(0)
  \/ Pop_Data(0, "idle")

SpecLIFO == InitStackSpec /\ [][NextLIFO]_vars

\* --------------------------------------------- EpochManager (GlobalWriteEM.h)

\* The wrapper at the head of a garbage list (null for an empty list).
ListHead(l) == IF l = <<>> THEN Null ELSE Head(l)

\* StartThread, lines 678-682
StartThread ==
  /\ em_pc = "init"
  /\ ce_pc = "none"
  /\ em_pc' = "run"
  /\ ce_pc' = "check"
  /\ UNCHANGED <<pc, head_epoch_p, current_epoch_p, active_thread_count,
                 garbage_list_p, en_next, ealloc, en_deleted, em_exited_flag,
                 epoch_p, add_epoch_p, garbage_node_p, garbage_next_p, histVars>>
  /\ UNCHANGED nonGEM

\* ThreadFunc, line 658: while(exited_flag.load() == false)
ThreadFunc_Check ==
  /\ ce_pc = "check"
  /\ ce_pc' = IF em_exited_flag THEN "exited" ELSE "ce_load"
  /\ UNCHANGED <<pc, head_epoch_p, current_epoch_p, active_thread_count,
                 garbage_list_p, en_next, ealloc, en_deleted, em_exited_flag,
                 em_pc, epoch_p, add_epoch_p, garbage_node_p, garbage_next_p,
                 histVars>>
  /\ UNCHANGED nonGEM

\* ClearEpoch, lines 554-571: stop at the current epoch, otherwise load the
\* head's counter and stop if it is not zero.
ClearEpoch_Load ==
  /\ ce_pc = "ce_load"
  /\ ce_pc' = IF head_epoch_p = current_epoch_p THEN "ce_done"
              ELSE IF active_thread_count[head_epoch_p] # 0 THEN "ce_done"
              ELSE "ce_lock"
  /\ UNCHANGED <<pc, head_epoch_p, current_epoch_p, active_thread_count,
                 garbage_list_p, en_next, ealloc, en_deleted, em_exited_flag,
                 em_pc, epoch_p, add_epoch_p, garbage_node_p, garbage_next_p,
                 histVars>>
  /\ UNCHANGED nonGEM

\* ClearEpoch, line 578: fetch_sub(MAX_THREAD_COUNT) > 0
ClearEpoch_Lock ==
  /\ ce_pc = "ce_lock"
  /\ active_thread_count' = [active_thread_count EXCEPT
                               ![head_epoch_p] = @ - MAX_THREAD_COUNT]
  /\ ce_pc' = IF active_thread_count[head_epoch_p] > 0
                THEN "ce_restore" ELSE "ce_walk"
  /\ UNCHANGED <<pc, head_epoch_p, current_epoch_p,
                 garbage_list_p, en_next, ealloc, en_deleted, em_exited_flag,
                 em_pc, epoch_p, add_epoch_p, garbage_node_p, garbage_next_p,
                 histVars>>
  /\ UNCHANGED nonGEM

\* ClearEpoch, line 584: the counter after fetch_add(MAX_THREAD_COUNT)
Restored(count) == count + MAX_THREAD_COUNT

\* ClearEpoch, lines 584-586: fetch_add(MAX_THREAD_COUNT); break
ClearEpoch_Restore ==
  /\ ce_pc = "ce_restore"
  /\ active_thread_count' = [active_thread_count EXCEPT
                               ![head_epoch_p] = Restored(@)]
  /\ ce_pc' = "ce_done"
  /\ UNCHANGED <<pc, head_epoch_p, current_epoch_p,
                 garbage_list_p, en_next, ealloc, en_deleted, em_exited_flag,
                 em_pc, epoch_p, add_epoch_p, garbage_node_p, garbage_next_p,
                 histVars>>
  /\ UNCHANGED nonGEM

\* The free counts after every payload of the list l was freed.
RECURSIVE FreeList(_, _)
FreeList(l, f) ==
  IF l = <<>> THEN f
  ELSE FreeList(Tail(l), [f EXCEPT ![Head(l)] = IF @ < 2 THEN @ + 1 ELSE @])

\* ClearEpoch, line 599: the list the walk frees, garbage_list_p.load()
WalkList(e) == garbage_list_p[e]

\* ClearEpoch, lines 599-611: load garbage_list_p and free every entry of it
ClearEpoch_Walk ==
  /\ ce_pc = "ce_walk"
  /\ freed' = FreeList(WalkList(head_epoch_p), freed)
  /\ ce_pc' = "ce_delete"
  /\ UNCHANGED <<pc, head_epoch_p, current_epoch_p, active_thread_count,
                 garbage_list_p, en_next, ealloc, en_deleted, em_exited_flag,
                 em_pc, epoch_p, add_epoch_p, garbage_node_p, garbage_next_p,
                 retired, inOp, stillIn>>
  /\ UNCHANGED nonGEM

\* ClearEpoch, lines 615-628: delete head_epoch_p and advance to its next_p
ClearEpoch_Delete ==
  /\ ce_pc = "ce_delete"
  /\ en_deleted' = en_deleted \cup {head_epoch_p}
  /\ head_epoch_p' = en_next[head_epoch_p]
  /\ ce_pc' = "ce_load"
  /\ UNCHANGED <<pc, current_epoch_p, active_thread_count,
                 garbage_list_p, en_next, ealloc, em_exited_flag,
                 em_pc, epoch_p, add_epoch_p, garbage_node_p, garbage_next_p,
                 histVars>>
  /\ UNCHANGED nonGEM

\* CreateNewEpoch, line 251: current_epoch_p->next_p = epoch_node_p.  A mutant
\* forgets the link.
Appended_Not(cur, n) == en_next

Appended(cur, n) == [en_next EXCEPT ![cur] = n]

\* PerformGarbageCollection, line 643: CreateNewEpoch (lines 238-261) once
\* ClearEpoch returned
CreateNewEpoch ==
  /\ ce_pc = "ce_done"
  /\ em_pc \in {"run", "join"}
  /\ ealloc < MaxEpochNodes
  /\ ealloc' = ealloc + 1
  /\ en_next' = Appended(current_epoch_p, ealloc + 1)
  /\ current_epoch_p' = ealloc + 1
  /\ ce_pc' = "check"
  /\ UNCHANGED <<pc, head_epoch_p, active_thread_count,
                 garbage_list_p, en_deleted, em_exited_flag,
                 em_pc, epoch_p, add_epoch_p, garbage_node_p, garbage_next_p,
                 histVars>>
  /\ UNCHANGED nonGEM

\* A pointer to the deleted epoch node d once the block of d holds the node n.
Aliased(p, d, n) == IF p = d THEN n ELSE p

\* CreateNewEpoch, line 241, when operator new hands out the block of the
\* deleted epoch node d again, while some thread still holds a pointer to d:
\* the new node is constructed at that address (lines 243-248) and appended,
\* and every pointer to d that a thread holds now points to the new node.
CreateNewEpoch_Reuse(d) ==
  /\ ce_pc = "ce_done"
  /\ em_pc \in {"run", "join"}
  /\ ealloc < MaxEpochNodes
  /\ d \in en_deleted
  /\ \E t \in Threads : epoch_p[t] = d \/ add_epoch_p[t] = d
  /\ ealloc' = ealloc + 1
  /\ en_next' = Appended(current_epoch_p, ealloc + 1)
  /\ current_epoch_p' = ealloc + 1
  /\ epoch_p' = [t \in Threads |-> Aliased(epoch_p[t], d, ealloc + 1)]
  /\ add_epoch_p' = [t \in Threads |-> Aliased(add_epoch_p[t], d, ealloc + 1)]
  /\ ce_pc' = "check"
  /\ UNCHANGED <<pc, head_epoch_p, active_thread_count,
                 garbage_list_p, en_deleted, em_exited_flag,
                 em_pc, garbage_node_p, garbage_next_p,
                 histVars>>
  /\ UNCHANGED nonGEM

\* JoinEpoch, line 321: epoch_p = current_epoch_p
JoinEpoch_Load(t, at) ==
  /\ pc[t] = at
  /\ em_pc = "run"
  /\ epoch_p' = [epoch_p EXCEPT ![t] = current_epoch_p]
  /\ pc' = [pc EXCEPT ![t] = "join_add"]
  /\ UNCHANGED <<head_epoch_p, current_epoch_p, active_thread_count,
                 garbage_list_p, en_next, ealloc, en_deleted, em_exited_flag,
                 ce_pc, em_pc, add_epoch_p, garbage_node_p, garbage_next_p,
                 histVars>>
  /\ UNCHANGED nonGEM

\* JoinEpoch, line 327: the test on the value fetch_add returned
JoinRetries(prev_count) == prev_count < 0

\* JoinEpoch, lines 323-335: fetch_add(1) on the snapshot, retry if the old
\* value was negative. On an epoch node that was deleted meanwhile the
\* fetch_add reads freed memory: the thread stops, or finds any old value.
JoinEpoch_Add(t, ret) ==
  /\ pc[t] = "join_add"
  /\ \/ /\ epoch_p[t] \notin en_deleted
        /\ active_thread_count' = [active_thread_count EXCEPT ![epoch_p[t]] = @ + 1]
        /\ IF JoinRetries(active_thread_count[epoch_p[t]])
             THEN /\ pc' = [pc EXCEPT ![t] = "join_retry"]
                  /\ epoch_p' = [epoch_p EXCEPT ![t] = Null]
                  /\ UNCHANGED inOp
             ELSE /\ pc' = [pc EXCEPT ![t] = ret]
                  /\ inOp' = inOp \cup {t}
                  /\ UNCHANGED epoch_p
     \/ /\ epoch_p[t] \in en_deleted
        /\ \/ /\ pc' = [pc EXCEPT ![t] = "join_retry"]
              /\ epoch_p' = [epoch_p EXCEPT ![t] = Null]
              /\ UNCHANGED inOp
           \/ /\ pc' = [pc EXCEPT ![t] = ret]
              /\ inOp' = inOp \cup {t}
              /\ UNCHANGED epoch_p
           \/ /\ pc' = [pc EXCEPT ![t] = "crashed"]
              /\ UNCHANGED <<epoch_p, inOp>>
        /\ UNCHANGED active_thread_count
  /\ UNCHANGED <<head_epoch_p, current_epoch_p,
                 garbage_list_p, en_next, ealloc, en_deleted, em_exited_flag,
                 ce_pc, em_pc, add_epoch_p, garbage_node_p, garbage_next_p,
                 freed, retired, stillIn>>
  /\ UNCHANGED nonGEM

\* LeaveEpoch, line 347: fetch_sub(1) on the handle's counter
LeaveEpoch(t) ==
  /\ pc[t] = "inop"
  /\ em_pc = "run"
  /\ t \in inOp
  /\ active_thread_count' =
       IF epoch_p[t] \in en_deleted THEN active_thread_count
       ELSE [active_thread_count EXCEPT ![epoch_p[t]] = @ - 1]
  /\ epoch_p' = [epoch_p EXCEPT ![t] = Null]
  /\ inOp' = inOp \ {t}
  /\ stillIn' = [p \in Nodes |-> stillIn[p] \ {t}]
  /\ pc' = [pc EXCEPT ![t] = "idle"]
  /\ UNCHANGED <<head_epoch_p, current_epoch_p,
                 garbage_list_p, en_next, ealloc, en_deleted, em_exited_flag,
                 ce_pc, em_pc, add_epoch_p, garbage_node_p, garbage_next_p,
                 freed, retired>>
  /\ UNCHANGED nonGEM

\* AddGarbageNode, lines 279-283: epoch_p = current_epoch_p; new GarbageNode
EAdd_New(t, p, at) ==
  /\ pc[t] = at
  /\ em_pc = "run"
  /\ p \in Payloads
  /\ add_epoch_p' = [add_epoch_p EXCEPT ![t] = current_epoch_p]
  /\ garbage_node_p' = [garbage_node_p EXCEPT ![t] = p]
  /\ retired' = retired \cup {p}
  /\ stillIn' = [stillIn EXCEPT ![p] = inOp]
  /\ pc' = [pc EXCEPT ![t] = "eadd_load"]
  /\ UNCHANGED <<head_epoch_p, current_epoch_p, active_thread_count,
                 garbage_list_p, en_next, ealloc, en_deleted, em_exited_flag,
                 ce_pc, em_pc, epoch_p, garbage_next_p, freed, inOp>>
  /\ UNCHANGED nonGEM

\* AddGarbageNode, line 285: garbage_node_p->next_p = epoch_p->garbage_list_p.load()
EAdd_Load(t) ==
  /\ pc[t] = "eadd_load"
  /\ garbage_next_p' = [garbage_next_p EXCEPT
                          ![t] = ListHead(garbage_list_p[add_epoch_p[t]])]
  /\ pc' = [pc EXCEPT ![t] = "eadd_cas"]
  /\ UNCHANGED <<head_epoch_p, current_epoch_p, active_thread_count,
                 garbage_list_p, en_next, ealloc, en_deleted, em_exited_flag,
                 ce_pc, em_pc, epoch_p, add_epoch_p, garbage_node_p, histVars>>
  /\ UNCHANGED nonGEM

\* AddGarbageNode, lines 287-301: one compare_exchange_strong on the list of
\* the snapshot. On a deleted epoch node the CAS writes freed memory: the
\* thread stops, or the CAS behaves as on the node's last contents.
EAdd_CAS(t, ret) ==
  /\ pc[t] = "eadd_cas"
  /\ \/ /\ IF ListHead(garbage_list_p[add_epoch_p[t]]) = garbage_next_p[t]
             THEN /\ garbage_list_p' = [garbage_list_p EXCEPT
                                          ![add_epoch_p[t]] = <<garbage_node_p[t]>> \o @]
                  /\ add_epoch_p' = [add_epoch_p EXCEPT ![t] = Null]
                  /\ garbage_node_p' = [garbage_node_p EXCEPT ![t] = Null]
                  /\ garbage_next_p' = [garbage_next_p EXCEPT ![t] = Null]
                  /\ pc' = [pc EXCEPT ![t] = ret]
             ELSE /\ garbage_next_p' = [garbage_next_p EXCEPT
                                          ![t] = ListHead(garbage_list_p[add_epoch_p[t]])]
                  /\ UNCHANGED <<garbage_list_p, add_epoch_p, garbage_node_p, pc>>
     \/ /\ add_epoch_p[t] \in en_deleted
        /\ pc' = [pc EXCEPT ![t] = "crashed"]
        /\ UNCHANGED <<garbage_list_p, add_epoch_p, garbage_node_p, garbage_next_p>>
  /\ UNCHANGED <<head_epoch_p, current_epoch_p, active_thread_count,
                 en_next, ealloc, en_deleted, em_exited_flag,
                 ce_pc, em_pc, epoch_p, histVars>>
  /\ UNCHANGED nonGEM

\* The worker threads are outside every call of the manager when it is destroyed.
QuiescentEM == \A t \in Threads : pc[t] \in {"idle", "inop", "crashed"}

\* ~EpochManager, line 163: exited_flag.store(true)
EDtor_SetExit ==
  /\ em_pc = "run"
  /\ QuiescentEM
  /\ em_exited_flag' = TRUE
  /\ em_pc' = "join"
  /\ UNCHANGED <<pc, head_epoch_p, current_epoch_p, active_thread_count,
                 garbage_list_p, en_next, ealloc, en_deleted, ce_pc,
                 epoch_p, add_epoch_p, garbage_node_p, garbage_next_p, histVars>>
  /\ UNCHANGED nonGEM

\* ~EpochManager, lines 174-191: thread_p->join(); current_epoch_p = nullptr;
\* ClearEpoch() starts
EDtor_Join ==
  /\ em_pc = "join"
  /\ ce_pc = "exited"
  /\ current_epoch_p' = Null
  /\ ce_pc' = "ce_load"
  /\ em_pc' = "clear"
  /\ UNCHANGED <<pc, head_epoch_p, active_thread_count,
                 garbage_list_p, en_next, ealloc, en_deleted, em_exited_flag,
                 epoch_p, add_epoch_p, garbage_node_p, garbage_next_p, histVars>>
  /\ UNCHANGED nonGEM

\* The epoch nodes linked from e through next_p, e first.
RECURSIVE EChain(_, _)
EChain(e, fuel) ==
  IF e = Null \/ fuel = 0 THEN {} ELSE {e} \cup EChain(en_next[e], fuel - 1)

\* ~EpochManager, lines 196-211: if epochs are left, zero every counter and
\* run ClearEpoch() again
EDtor_Retry ==
  /\ em_pc = "clear"
  /\ ce_pc = "ce_done"
  /\ IF head_epoch_p # Null
       THEN /\ active_thread_count' =
                 [e \in EpochNodes |->
                    IF e \in EChain(head_epoch_p, MaxEpochNodes + 1)
                      THEN 0 ELSE active_thread_count[e]]
            /\ ce_pc' = "ce_load"
            /\ em_pc' = "reclear"
       ELSE /\ ce_pc' = "exited"
            /\ em_pc' = "done"
            /\ UNCHANGED active_thread_count
  /\ UNCHANGED <<pc, head_epoch_p, current_epoch_p,
                 garbage_list_p, en_next, ealloc, en_deleted, em_exited_flag,
                 epoch_p, add_epoch_p, garbage_node_p, garbage_next_p, histVars>>
  /\ UNCHANGED nonGEM

\* ~EpochManager, line 213, after the second ClearEpoch(): the destructor ends
EDtor_End ==
  /\ em_pc = "reclear"
  /\ ce_pc = "ce_done"
  /\ ce_pc' = "exited"
  /\ em_pc' = "done"
  /\ UNCHANGED <<pc, head_epoch_p, current_epoch_p, active_thread_count,
                 garbage_list_p, en_next, ealloc, en_deleted, em_exited_flag,
                 epoch_p, add_epoch_p, garbage_node_p, garbage_next_p, histVars>>
  /\ UNCHANGED nonGEM

\* The payload a worker retires next: a fresh object.
NextRetired == Cardinality(retired) + 1

\* Where AddGarbageNode returns to: inside the epoch the thread joined, or
\* outside every epoch.
AfterAdd(t) == IF epoch_p[t] = Null THEN "idle" ELSE "inop"

InitGlobal ==
  /\ pc = [t \in Threads |-> "idle"]
  /\ InitStack
  /\ InitLEM(1)
  /\ InitGEM
  /\ InitHist
  /\ InitPool

NextGlobal ==
  \/ StartThread
  \/ ThreadFunc_Check
  \/ ClearEpoch_Load
  \/ ClearEpoch_Lock
  \/ ClearEpoch_Restore
  \/ ClearEpoch_Walk
  \/ ClearEpoch_Delete
  \/ CreateNewEpoch
  \/ \E d \in EpochNodes : CreateNewEpoch_Reuse(d)
  \/ EDtor_SetExit
  \/ EDtor_Join
  \/ EDtor_Retry
  \/ EDtor_End
  \/ \E t \in Workers :
       \/ JoinEpoch_Load(t, "idle")
       \/ JoinEpoch_Load(t, "join_retry")
       \/ JoinEpoch_Add(t, "inop")
       \/ LeaveEpoch(t)
       \/ EAdd_New(t, NextRetired, "idle")
       \/ EAdd_New(t, NextRetired, "inop")
       \/ EAdd_Load(t)
       \/ EAdd_CAS(t, AfterAdd(t))

SpecGlobal == InitGlobal /\ [][NextGlobal]_vars

\* Threads that call AddGarbageNode (lines 269-302) without joining an epoch,
\* beside the cleaner thread (ThreadFunc, lines 653-670): nobody is
\* ever inside an epoch, so ClearEpoch never meets a positive counter and its
\* restore branch (lines 584-586) is not reached.
NextRetire ==
  \/ StartThread
  \/ ThreadFunc_Check
  \/ ClearEpoch_Load
  \/ ClearEpoch_Lock
  \/ ClearEpoch_Walk
  \/ ClearEpoch_Delete
  \/ CreateNewEpoch
  \/ \E t \in Workers :
       \/ EAdd_New(t, NextRetired, "idle")
       \/ EAdd_Load(t)
       \/ EAdd_CAS(t, "idle")

SpecRetire == InitGlobal /\ [][NextRetire]_vars

\* ------------------------------------------- ThreadTest (em_test.cpp), shutdown

\* ThreadTest of em_test.cpp and local_em_test.cpp: a LocalWriteEM is created,
\* its collector thread started, and the manager is destroyed, here with one
\* worker retiring meanwhile; the same run on an EpochManager goes through
\* StartThread and ~EpochManager.  A run uses one of the two managers.
\* The run uses the local manager: the global one was never started.
LocalOnly == em_pc = "init"

\* The run uses the global manager: the local one was never started.
GlobalOnly == main_pc = "init"

NextShutdown ==
  \/ LocalOnly /\ StartGCThread
  \/ LocalOnly /\ GC_Check
  \/ LocalOnly /\ GotoNextEpoch
  \/ LocalOnly /\ DoGC_ReadSlot
  \/ LocalOnly /\ DoGC_Head
  \/ LocalOnly /\ DoGC_Loop
  \/ LocalOnly /\ Dtor_SignalExit
  \/ LocalOnly /\ Dtor_Join
  \/ LocalOnly /\ FreeAllGarbage
  \/ LocalOnly /\ Ann_Load(0, "idle")
  \/ LocalOnly /\ Ann_Load(0, "inop")
  \/ LocalOnly /\ Ann_Store(0, "inop")
  \/ LocalOnly /\ Add_New(0, NextPayload, "inop")
  \/ LocalOnly /\ Link_Load(0)
  \/ LocalOnly /\ Link_CAS(0, "inop")
  \/ GlobalOnly /\ StartThread
  \/ GlobalOnly /\ ThreadFunc_Check
  \/ GlobalOnly /\ ClearEpoch_Load
  \/ GlobalOnly /\ ClearEpoch_Lock
  \/ GlobalOnly /\ ClearEpoch_Restore
  \/ GlobalOnly /\ ClearEpoch_Walk
  \/ GlobalOnly /\ ClearEpoch_Delete
  \/ GlobalOnly /\ CreateNewEpoch
  \/ GlobalOnly /\ EDtor_SetExit
  \/ GlobalOnly /\ EDtor_Join
  \/ GlobalOnly /\ EDtor_Retry
  \/ GlobalOnly /\ EDtor_End
  \/ GlobalOnly /\ JoinEpoch_Load(0, "idle")
  \/ GlobalOnly /\ JoinEpoch_Load(0, "join_retry")
  \/ GlobalOnly /\ JoinEpoch_Add(0, "inop")
  \/ GlobalOnly /\ LeaveEpoch(0)
  \/ GlobalOnly /\ EAdd_New(0, NextRetired, "idle")
  \/ GlobalOnly /\ EAdd_New(0, NextRetired, "inop")
  \/ GlobalOnly /\ EAdd_Load(0)
  \/ GlobalOnly /\ EAdd_CAS(0, AfterAdd(0))

\* The collector thread of LocalWriteEM (ThreadFunc) and the thread that
\* destroys the manager keep running: sleep_for and join return.
GCThreadRuns ==
  LocalOnly /\ (GC_Check \/ GotoNextEpoch \/ DoGC_ReadSlot \/ DoGC_Head \/ DoGC_Loop)

DtorRuns == LocalOnly /\ (Dtor_Join \/ FreeAllGarbage)

\* The same for EpochManager: its cleaner thread, whose ClearEpoch the
\* destructor runs again itself, and the destructor.
CleanerRuns ==
  GlobalOnly /\ (ThreadFunc_Check \/ ClearEpoch_Load \/ ClearEpoch_Lock
                         \/ ClearEpoch_Restore \/ ClearEpoch_Walk
                         \/ ClearEpoch_Delete \/ CreateNewEpoch)

EDtorRuns == GlobalOnly /\ (EDtor_Join \/ EDtor_Retry \/ EDtor_End)

SpecShutdown ==
  /\ InitLocal
  /\ [][NextShutdown]_vars
  /\ WF_vars(GCThreadRuns) /\ WF_vars(DtorRuns)
  /\ WF_vars(CleanerRuns) /\ WF_vars(EDtorRuns)

\* ------------------------------------------------ SignalExit while workers run

\* SignalExit, lines 299-303: exited_flag.store(true), callable by any user
\* of a live manager (FactoryTest calls it before destroying the manager).
SignalExit ==
  /\ main_pc = "run"
  /\ exited_flag' = TRUE
  /\ UNCHANGED <<pc, core_num, core_counter, epoch_counter, garbage_head_p,
                 gn_epoch, gn_garbage, gn_next, galloc, gn_deleted,
                 ann_epoch, gn_p, gc_pc, gc_i, min_epoch, current_node_p,
                 next_node_p, main_pc, histVars>>
  /\ UNCHANGED nonLEM

\* A worker keeps using the manager while another thread calls SignalExit.
NextExit ==
  \/ StartGCThread
  \/ GC_Check
  \/ GotoNextEpoch
  \/ DoGC_ReadSlot
  \/ DoGC_Head
  \/ DoGC_Loop
  \/ SignalExit
  \/ Dtor_SignalExit
  \/ Dtor_Join
  \/ FreeAllGarbage
  \/ Ann_Load(0, "idle")
  \/ Ann_Load(0, "inop")
  \/ Ann_Store(0, "inop")
  \/ Add_New(0, NextPayload, "inop")
  \/ Link_Load(0)
  \/ Link_CAS(0, "inop")

SpecExit == InitLocal /\ [][NextExit]_vars

\* ------------------------------------------------- MixedGCTest (em_test.cpp)

\* The tests call NodeType *AtomicStack::Pop(), which AtomicStack.h does not
\* declare; it is modelled from the stack's description: snapshot head, if
\* null return null, otherwise read head.next and CAS head to it, retrying
\* from the refreshed snapshot, and return the detached node.
PopN_Load(t, at, retnull) ==
  /\ pc[t] = at
  /\ old_p' = [old_p EXCEPT ![t] = head_p]
  /\ pc' = [pc EXCEPT ![t] = IF head_p = Null THEN retnull ELSE "popn_next"]
  /\ UNCHANGED <<head_p, next_p, data, nalloc, node_p, new_p,
                 pushed, popped, outs, crashed>>
  /\ UNCHANGED nonStack

\* new_p = old_p->next_p: the read of a node that was freed meanwhile either
\* stops the thread or returns what the node held.
PopN_Next(t) ==
  /\ pc[t] = "popn_next"
  /\ \/ /\ freed[old_p[t]] > 0
        /\ crashed' = crashed \cup {t}
        /\ pc' = [pc EXCEPT ![t] = "crashed"]
        /\ UNCHANGED new_p
     \/ /\ new_p' = [new_p EXCEPT ![t] = next_p[old_p[t]]]
        /\ pc' = [pc EXCEPT ![t] = "popn_cas"]
        /\ UNCHANGED crashed
  /\ UNCHANGED <<head_p, next_p, data, nalloc, node_p, old_p,
                 pushed, popped, outs>>
  /\ UNCHANGED nonStack

\* One compare_exchange_strong(old_p, new_p); a failed CAS refreshes the snapshot.
PopN_CAS(t, retnull) ==
  /\ pc[t] = "popn_cas"
  /\ IF head_p = old_p[t]
       THEN /\ head_p' = new_p[t]
            /\ popped' = Append(popped, old_p[t])
            /\ new_p' = [new_p EXCEPT ![t] = Null]
            /\ pc' = [pc EXCEPT ![t] = "m_use"]
            /\ UNCHANGED old_p
       ELSE /\ old_p' = [old_p EXCEPT ![t] = head_p]
            /\ new_p' = [new_p EXCEPT ![t] = Null]
            /\ pc' = [pc EXCEPT ![t] = IF head_p = Null THEN retnull ELSE "popn_next"]
            /\ UNCHANGED <<head_p, popped>>
  /\ UNCHANGED <<next_p, data, nalloc, node_p, pushed, outs, crashed>>
  /\ UNCHANGED nonStack

\* em_test.cpp line 147, local_em_test.cpp line 130: sum.fetch_add(node_p->data)
Mixed_Use(t) ==
  /\ pc[t] = "m_use"
  /\ \/ /\ freed[old_p[t]] > 0
        /\ crashed' = crashed \cup {t}
        /\ pc' = [pc EXCEPT ![t] = "crashed"]
        /\ UNCHANGED outs
     \/ /\ outs' = Append(outs, data[old_p[t]])
        /\ pc' = [pc EXCEPT ![t] = "m_retire"]
        /\ UNCHANGED crashed
  /\ UNCHANGED <<head_p, next_p, data, nalloc, node_p, old_p, new_p,
                 pushed, popped>>
  /\ UNCHANGED nonStack

\* MixedGCTest: threads with an even id pop, threads with an odd id push; as
\* many nodes are pushed as are popped, and an operation starts only while
\* its thread's loop has work left (fewer than MaxRetire pushes or retirements).
Poppers == {t \in Threads : t % 2 = 0}

Pushers == {t \in Threads : t % 2 = 1}

InitMixed ==
  /\ pc = [t \in Threads |-> "idle"]
  /\ InitStack
  /\ \E n \in 1..MaxCores : InitLEM(n)
  /\ InitGEM
  /\ InitHist
  /\ InitPool

NextMixed ==
  \/ Dtor_SignalExit
  \/ Dtor_Join
  \/ FreeAllGarbage
  \/ StartGCThread
  \/ GC_Check
  \/ GotoNextEpoch
  \/ DoGC_ReadSlot
  \/ DoGC_Head
  \/ DoGC_Loop
  \/ \E t \in Poppers :
       \/ galloc < MaxRetire /\ Ann_Load(t, "idle")
       \/ Ann_Store(t, "m_pop")
       \/ PopN_Load(t, "m_pop", "idle")
       \/ PopN_Next(t)
       \/ PopN_CAS(t, "idle")
       \/ Mixed_Use(t)
       \/ Add_New(t, old_p[t], "m_retire")
       \/ Link_Load(t)
       \/ Link_CAS(t, "idle")
  \/ \E t \in Pushers :
       \/ nalloc < MaxRetire /\ Ann_Load(t, "idle")
       \/ Ann_Store(t, "m_push")
       \/ Push_New(t, nalloc + 1, "m_push")
       \/ Push_Load(t)
       \/ Push_CAS(t, "idle")

SpecMixed == InitMixed /\ [][NextMixed]_vars

\* -------------------------------------- VarLenPoolThreadTest (var_len_pool_test.cpp)

\* Threads of var_len_pool_test.cpp allocate concurrently from one pool; the
\* memory they hold is given back with Free.
InitPoolSpec ==
  /\ pc = [t \in Threads |-> "idle"]
  /\ InitStack
  /\ InitLEM(1)
  /\ InitGEM
  /\ InitHist
  /\ InitPool

NextPool ==
  \E t \in PoolThreads :
    \/ \E sz \in ReqSizes : Allocate_Load(t, sz)
    \/ ChunkAllocate_Load(t)
    \/ ChunkAllocate_CAS(t)
    \/ AllocateChunk_Load(t)
    \/ AllocateChunk_CAS(t)
    \/ AllocateChunk_Store(t)
    \/ \E i \in 1..MaxMems : Free_Load(t, i)
    \/ Free_CAS(t)

SpecPool == InitPoolSpec /\ [][NextPool]_vars

\* The sizes of the first iterations of VarLenPoolThreadTest: requests that
\* an empty chunk can hold.
SmallSizes == {sz \in ReqSizes : RoundUp(sz) + MemSize <= ChunkSize}

\* The threads allocate small sizes and give the memory back.
NextPoolLive ==
  \E t \in PoolThreads :
    \/ \E sz \in SmallSizes : Allocate_Load(t, sz)
    \/ ChunkAllocate_Load(t)
    \/ ChunkAllocate_CAS(t)
    \/ AllocateChunk_Load(t)
    \/ AllocateChunk_CAS(t)
    \/ AllocateChunk_Store(t)
    \/ \E i \in 1..MaxMems : Free_Load(t, i)
    \/ Free_CAS(t)

\* A thread inside the loop of Free keeps running: the scheduler does not
\* stop it forever.
FreeRuns(t) == Free_CAS(t)

SpecPoolLive ==
  InitPoolSpec /\ [][NextPoolLive]_vars /\ \A t \in PoolThreads : WF_vars(FreeRuns(t))

\* ------------------------------------------------------- DoGC called twice

\* DoGC (lines 394-444) is a public member: the thread that owns a manager
\* whose collector thread was not started calls it itself, twice in a row,
\* with no worker running.  The manager is in any state its workers and
\* earlier ticks can have left: k wrappers linked newest first, each with a
\* deleted_epoch up to the epoch counter, and slots up to the epoch counter.
InitTwice ==
  /\ pc = [t \in Threads |-> "idle"]
  /\ InitStack
  /\ InitGEM
  /\ InitPool
  /\ \E n \in 1..MaxCores, e \in 0..MaxEpoch, k \in 0..MaxNodes :
       /\ core_num = n
       /\ epoch_counter = e
       /\ core_counter \in [Cores -> 0..e]
       /\ \A c \in Cores : c >= n => core_counter[c] = 0
       /\ galloc = k
       /\ garbage_head_p = k
       /\ gn_epoch \in [Nodes -> 0..e]
       /\ \A g \in Nodes : g > k => gn_epoch[g] = 0
       /\ gn_garbage = [g \in Nodes |-> IF g <= k THEN g ELSE Null]
       /\ gn_next = [g \in Nodes |-> IF g <= k THEN g - 1 ELSE Null]
       /\ retired = 1..k
  /\ gn_deleted = {}
  /\ exited_flag = FALSE
  /\ ann_epoch = [t \in Threads |-> 0]
  /\ gn_p = [t \in Threads |-> Null]
  /\ gc_pc = "check"
  /\ gc_i = 0
  /\ min_epoch = 0
  /\ current_node_p = Null
  /\ next_node_p = Null
  /\ main_pc = "run"
  /\ freed = [p \in Nodes |-> 0]
  /\ inOp = {}
  /\ stillIn = [p \in Nodes |-> {}]

\* A call of DoGC by the owning thread, which goes from to: the pass starts
\* with the scan of the slots (line 396).
DoGC_Call(from, to) ==
  /\ main_pc = from
  /\ gc_pc = "check"
  /\ main_pc' = to
  /\ gc_pc' = "gc_min"
  /\ UNCHANGED <<pc, core_num, core_counter, epoch_counter, garbage_head_p,
                 gn_epoch, gn_garbage, gn_next, galloc, gn_deleted, exited_flag,
                 ann_epoch, gn_p, gc_i, min_epoch, current_node_p,
                 next_node_p, histVars>>
  /\ UNCHANGED nonLEM

NextTwice ==
  \/ DoGC_Call("run", "first")
  \/ DoGC_Call("first", "second")
  \/ DoGC_ReadSlot
  \/ DoGC_Head
  \/ DoGC_Loop

SpecTwice == InitTwice /\ [][NextTwice]_vars

\* ------------------------------------------------------------------ claims

C8_Conservation ==
  /\ Range(Linked) = Range(pushed) \ Range(popped)
  /\ Len(Linked) = Len(pushed) - Len(popped)
  /\ \A i, j \in 1..Len(popped) : i # j => popped[i] # popped[j]

\* C9: Pop never dereferences a null head, whether the stack is empty when
\* Pop starts or is emptied between Pop's CAS retries.
C9_PopNeverDerefsNull == crashed = {}

\* C10: a node detached by a successful Pop is never reachable from head again.
C10_PoppedStaysDetached == Range(popped) \cap Range(Linked) = {}

\* Every per-core slot is written by one worker only.
OneWriterPerSlot ==
  \A a, b \in Workers : a # b => core_id(a) # core_id(b)

\* C1: with one writer per slot, DoGC frees no payload while a worker that
\* completed an AnnounceEnter before the payload was retired has not yet
\* completed its next AnnounceEnter.
C1_GracePeriod ==
  (OneWriterPerSlot /\ main_pc # "done") =>
    \A p \in Nodes : freed[p] > 0 => stillIn[p] = {}

\* C1 witness: with one writer per slot DoGC freed a payload, every worker
\* having been inside an operation.
C1_Witness ==
  /\ OneWriterPerSlot
  /\ main_pc = "run"
  /\ inOp = Workers
  /\ \E p \in Nodes : freed[p] = 1

\* C5: no payload is freed twice, only retired payloads are freed, and after
\* the destructor's drain every retired payload was freed exactly once and
\* the garbage list is empty.
C5_FreedExactlyOnce ==
  /\ \A p \in Nodes : freed[p] <= (IF p \in retired THEN 1 ELSE 0)
  /\ main_pc = "done" =>
       /\ garbage_head_p = Null
       /\ \A p \in retired : freed[p] = 1

\* C5 witness: the manager was destroyed after MaxRetire payloads were
\* retired, one of them in the last epoch (which no DoGC pass can reclaim).
C5_Witness ==
  /\ main_pc = "done"
  /\ Cardinality(retired) = MaxRetire
  /\ \E g \in GNodes : gn_epoch[g] = MaxEpoch /\ freed[gn_garbage[g]] = 1
  /\ \E g \in GNodes : gn_epoch[g] < MaxEpoch

\* C2: in the MixedGCTest protocol no stack node is freed while a thread that
\* read it as head in its current Pop is about to dereference it.
C2_NoFreeWhileHeld ==
  [][\A p \in Nodes : freed'[p] > freed[p] =>
       \A t \in Threads : ~(pc[t] = "popn_next" /\ old_p[t] = p)]_vars

\* C4: while the cleaner thread may run, no payload is freed while a thread
\* that had returned from JoinEpoch before the payload was passed to
\* AddGarbageNode has not yet called LeaveEpoch.
C4_JoinProtects ==
  em_pc \in {"init", "run", "join"} =>
    \A p \in Payloads : freed[p] > 0 => stillIn[p] = {}

\* C6: no payload of the global manager is freed twice, only retired payloads
\* are freed, and when the destructor has finished every epoch node was
\* deleted, head_epoch_p is null and every retired payload was freed once.
C6_EpochFreedExactlyOnce ==
  /\ \A p \in Nodes : freed[p] <= (IF p \in retired THEN 1 ELSE 0)
  /\ em_pc = "done" =>
       /\ head_epoch_p = Null
       /\ \A e \in 1..ealloc : e \in en_deleted
       /\ \A p \in retired : freed[p] = 1

\* C3: at the moment the cleaner of the global manager frees a payload, every
\* worker inside an operation that began before the payload was retired (and
\* so, all the more, before the free) has completed that operation.
C3_FreeAfterOperations ==
  [][\A p \in Payloads :
       (freed'[p] > freed[p] /\ em_pc \in {"run", "join"}) => stillIn[p] = {}]_vars

\* C11: a Push that has allocated its node always returns, whatever head_p
\* holds and however often its CAS fails, the other threads completing only
\* finitely many operations.
C11_PushReturns ==
  \A t \in StackThreads : (pc[t] \in {"push_load", "push_cas"}) ~> (pc[t] = "idle")

\* C11 witness: a Push is about to fail its CAS because head_p changed after
\* it loaded old_p, on a stack that is not empty.
C11_Witness ==
  \E t \in StackThreads :
    pc[t] = "push_cas" /\ old_p[t] # head_p /\ head_p # Null /\ Len(pushed) > 0

\* The bytes of the allocation m inside its chunk, back-pointer included.
MemRange(m) == m.offset .. (m.offset + MemSize + m.sz - 1)

\* C12: every pointer VarLenPool::Allocate returned lies at a multiple of 8
\* bytes from its chunk's data base, its bytes and back-pointer lie inside the
\* chunk, and no two allocations of a chunk share a byte.
C12_AlignedDisjoint ==
  /\ \A i \in 1..Len(mems) :
       /\ (mems[i].offset + MemSize) % ALIGNMENT = 0
       /\ mems[i].offset + MemSize + mems[i].sz <= chunk_cap[mems[i].chunk_p]
  /\ \A i, j \in 1..Len(mems) :
       (i < j /\ mems[i].chunk_p = mems[j].chunk_p)
         => MemRange(mems[i]) \cap MemRange(mems[j]) = {}

\* C12 witness: two allocations lie in one chunk and a third in another
\* chunk, two threads having been inside Allocate at once.
C12_Witness ==
  /\ \E i, j \in 1..Len(mems) : i < j /\ mems[i].chunk_p = mems[j].chunk_p
  /\ \E i, j \in 1..Len(mems) : mems[i].chunk_p # mems[j].chunk_p
  /\ \A t \in PoolThreads : pool_sz[t] > 0

\* C13: VarLenPool::Allocate returns a non-null pointer for every size: it
\* never calls Chunk::Allocate through a null chunk pointer, and an empty
\* chunk of the size AllocateChunk creates for the request never refuses it
\* (a refusal that repeats on every chunk the loop creates).
C13_AllocateReturns ==
  \A t \in PoolThreads :
    /\ pc[t] # "null_deref"
    /\ ~(/\ pc[t] = "ac_load"
         /\ expected_header[t].offset = 0
         /\ chunk_cap[pool_chunk_p[t]] = NewChunkSize(pool_sz[t]))

\* The allocations of chunk c in the states sts.
MemsOf(c, sts) == {i \in 1..Len(mems) : mems[i].chunk_p = c /\ mems[i].st \in sts}

\* C14: the ref_count of every chunk is the number of its allocations that
\* Allocate returned and whose Free has not taken effect: those not passed to
\* Free, and those whose Free has not yet done its decrement.  With no Free
\* in progress it is the number of allocations not passed to Free.
C14_RefCountIsLive ==
  \A c \in Chunks :
    /\ header[c].ref_count = Cardinality(MemsOf(c, {"live", "freeing"}))
    /\ (\A t \in PoolThreads : pc[t] # "fr_cas")
         => header[c].ref_count = Cardinality(MemsOf(c, {"live"}))

\* C14 witness: a chunk that served two allocations has one of them freed and
\* the other live, and its ref_count is 1.
C14_Witness ==
  \E c \in Chunks :
    /\ MemsOf(c, {"freed"}) # {}
    /\ MemsOf(c, {"live"}) # {}
    /\ header[c].ref_count = 1
    /\ \A t \in PoolThreads : pc[t] = "idle"

\* C15: a Free that brings the ref_count of a chunk from 1 to 0 while the
\* chunk is not the append tail sets the chunk's delete_epoch to the current
\* epoch of the reclamation manager; a chunk never emptied keeps (uint64_t)-1.
C15_FreeSetsDeleteEpoch ==
  /\ [][\A c \in Chunks :
          (/\ header[c].ref_count = 1
           /\ header'[c].ref_count = 0
           /\ c # appending_tail_p) => delete_epoch'[c] = epoch_counter]_vars
  /\ [](\A c \in Chunks : MemsOf(c, {"freed"}) = {} => delete_epoch[c] = NoEpoch)

\* C16: a collector tick frees every retired payload whose deleted_epoch is
\* below every slot the tick read, the most recently retired one included:
\* when DoGC has walked to the end of the list, the wrapper it stands on,
\* which was in the list when the tick loaded the head, is not one that the
\* test of line 423 would reclaim.
C16_TickFreesAll ==
  (gc_pc = "gc_loop" /\ next_node_p = Null) => ~Reclaimable(current_node_p)

\* C17: with no thread inside any epoch, a payload linked by AddGarbageNode
\* onto an epoch node is freed before the cleaner has completed two ticks:
\* an unfreed payload lies on the current epoch node or on the one before it.
C17_FreedWithinTwoTicks ==
  \A e \in 1..ealloc : \A i \in 1..Len(garbage_list_p[e]) :
    freed[garbage_list_p[e][i]] = 0 => ealloc <= e + 1

\* The collector of the model can still start the tick it is waiting for: the
\* epoch counter and the epoch nodes are below the bounds of the model.
LocalTickFits == ~(gc_pc = "goto" /\ epoch_counter >= MaxEpoch)

GlobalTickFits ==
  ce_pc \in {"check", "exited"} \/ ealloc < MaxEpochNodes \/ em_pc \notin {"run", "join"}

\* C18: once the exited flag of a manager is set its collector thread leaves
\* the loop at its next wake-up, the destructor's join returns and the
\* destruction ends; the destructor goes past the join, to its drain sweep,
\* only when the collector thread has exited.
C18_CollectorShutdown ==
  /\ [][/\ (exited_flag /\ gc_pc = "check") => gc_pc' \in {"check", "exited"}
        /\ (main_pc = "join" /\ main_pc' # "join") => gc_pc = "exited"
        /\ (em_exited_flag /\ em_pc = "join" /\ ce_pc = "check")
              => ce_pc' \in {"check", "exited"}
        /\ (em_pc = "join" /\ em_pc' # "join") => ce_pc = "exited"]_vars
  /\ [](main_pc \in {"drain", "done"} => gc_pc = "exited")
  /\ (exited_flag /\ LocalTickFits) ~> (main_pc = "done")
  /\ (em_exited_flag /\ GlobalTickFits) ~> (em_pc = "done")

\* C18 witness: the exited flag of the local manager was set while a tick is
\* walking the garbage list, with a wrapper still to examine.
C18_Witness == exited_flag /\ gc_pc = "gc_loop" /\ next_node_p # Null

\* C19: after the exited flag of LocalWriteEM has been set, an AddGarbageNode
\* call is rejected: it creates no wrapper and nothing is linked onto the
\* garbage list (the list only changes by being drained).
C19_RetireAfterExitRejected ==
  [][exited_flag => /\ galloc' = galloc
                    /\ garbage_head_p' \in {garbage_head_p, Null}]_vars

\* The wrappers DoGC frees in a step, the destructor's drain left aside.
FreedByGC == IF gc_pc = "gc_loop" THEN gn_deleted' \ gn_deleted ELSE {}

\* C20 as stated: while a worker is inside an operation, DoGC frees no entry
\* whose deleted_epoch is smaller than the value the worker stored in its
\* slot (one writer per slot, so that the slot holds what the worker stored).
C20_NoFreeBelowSlot ==
  [][OneWriterPerSlot =>
       \A g \in FreedByGC : \A t \in inOp :
         ~(gn_epoch[g] < core_counter[core_id(t)])]_vars

\* C20 amended: while a worker is inside an operation, DoGC frees no entry
\* whose deleted_epoch is greater than or equal to the value the worker stored
\* in its slot: every entry it frees is older than every such slot value.
C20_NoFreeAtOrAboveSlot ==
  [][OneWriterPerSlot =>
       \A g \in FreedByGC : \A t \in inOp :
         gn_epoch[g] < core_counter[core_id(t)]]_vars

\* C20 witness: with one writer per slot and both workers inside an
\* operation, DoGC has freed an entry older than both slot values and has not
\* freed an entry that is not older.
C20_Witness ==
  /\ OneWriterPerSlot
  /\ main_pc = "run"
  /\ inOp = Workers
  /\ \E g \in gn_deleted : \A t \in Workers : gn_epoch[g] < core_counter[core_id(t)]
  /\ \E g \in 1..galloc :
       /\ g \notin gn_deleted
       /\ \E t \in Workers : gn_epoch[g] >= core_counter[core_id(t)]

\* C21: when the CAS of a Push succeeds, the next_p of the node it installs is
\* the head that the CAS replaced, also when the head changed after the node
\* was constructed or an earlier CAS of the same Push failed.
C21_PushLinksReplacedHead ==
  [][Len(pushed') > Len(pushed) => next_p[head_p'] = head_p]_vars

\* C22: DoGC frees an entry only if its deleted_epoch is strictly smaller than
\* the minimum of the slot values the pass read: every slot the scan reads
\* bounds min_epoch from above, the walk leaves min_epoch alone, and a wrapper
\* freed by the walk is the one just tested, older than min_epoch.  So where
\* a slot keeps the value a worker stored (one writer per slot), no entry
\* retired at that epoch or later has been freed by any number of ticks.
C22_FreeOnlyBelowMin ==
  /\ [][/\ (gc_pc = "gc_min" /\ <<gc_i, gc_pc>>' # <<gc_i, gc_pc>>) =>
             /\ min_epoch' <= core_counter[gc_i]
             /\ gc_i > 0 => min_epoch' <= min_epoch
        /\ (gc_pc = "gc_loop" /\ gc_pc' = "gc_loop") => min_epoch' = min_epoch
        /\ \A g \in FreedByGC : g = next_node_p /\ gn_epoch[g] < min_epoch]_vars
  /\ []((OneWriterPerSlot /\ main_pc \in {"init", "run", "join"}) =>
          \A g \in gn_deleted : \A c \in 0..(core_num - 1) :
            gn_epoch[g] < core_counter[c])

\* C22 witness: a worker, sole writer of its slot, stays inside the operation
\* it announced at an epoch E >= 1, the minimum the pass read is E, and the
\* walk has tested an entry of epoch E behind the head and kept it.
C22_Witness ==
  /\ OneWriterPerSlot
  /\ gc_pc = "gc_loop"
  /\ current_node_p # garbage_head_p
  /\ \E t \in Workers :
       /\ pc[t] = "inop"
       /\ core_counter[core_id(t)] >= 1
       /\ min_epoch = core_counter[core_id(t)]
       /\ gn_epoch[current_node_p] = min_epoch
       /\ current_node_p \notin gn_deleted

\* The wrappers whose LinkTo has returned: allocated and no longer held by the
\* AddGarbageNode call that created them.
Published == (1..galloc) \ {gn_p[t] : t \in Threads}

C24_SurvivesOneAdvance ==
  /\ [][\A g \in FreedByGC : gn_epoch[g] < epoch_counter]_vars
  /\ [](main_pc \in {"init", "run", "join"} =>
          \A g \in 1..galloc : gn_epoch[g] = epoch_counter => g \notin gn_deleted)

\* C24 witness: a tick freed an entry retired in the epoch just before the
\* current one, the manager still running.
C24_Witness ==
  /\ main_pc = "run"
  /\ \E g \in gn_deleted : gn_epoch[g] + 1 = epoch_counter

\* C25: no per-core slot ever holds a value greater than the epoch counter,
\* which never decreases; so the deleted_epoch a worker records when it
\* retires a payload is at least the value in the worker's own slot, and the
\* minimum over the slots is at most the retirement epoch.
C25_SlotsNotAhead ==
  /\ [](\A c \in 0..(core_num - 1) : core_counter[c] <= epoch_counter)
  /\ [][/\ epoch_counter' >= epoch_counter
        /\ galloc' > galloc =>
             \A c \in 0..(core_num - 1) :
               (\A d \in 0..(core_num - 1) : core_counter[c] <= core_counter[d])
                  => core_counter[c] <= gn_epoch'[galloc']
        /\ \A t \in Workers :
             (pc[t] # "link_load" /\ pc'[t] = "link_load") =>
                gn_epoch'[gn_p'[t]] >= core_counter[core_id(t)]]_vars

\* C25 witness: a worker that announced at an epoch >= 1 has just retired a
\* payload in a later epoch: the recorded deleted_epoch is above its slot.
C25_Witness ==
  \E t \in Workers :
    /\ pc[t] = "link_load"
    /\ core_counter[core_id(t)] >= 1
    /\ gn_epoch[gn_p[t]] > core_counter[core_id(t)]

\* C26: a second DoGC pass, run after a first one with no AnnounceEnter,
\* AddGarbageNode or GotoNextEpoch in between, frees nothing and leaves the
\* garbage list as the first pass left it.
C26_DoGCIdempotent ==
  [][main_pc = "second" =>
       /\ freed' = freed
       /\ gn_deleted' = gn_deleted
       /\ gn_next' = gn_next
       /\ garbage_head_p' = garbage_head_p]_vars

\* C26 witness: the second pass has returned; the first pass had freed an
\* entry and kept another entry behind the head.
C26_Witness ==
  /\ main_pc = "second"
  /\ gc_pc = "check"
  /\ gn_deleted # {}
  /\ \E g \in 1..galloc : g \notin gn_deleted /\ g # garbage_head_p

\* C27: JoinEpoch returns a node only if the node's counter was not negative
\* when JoinEpoch incremented it, a node locked by the cleaner being refused
\* and the snapshot dropped for a retry; and while the cleaner thread may run,
\* the node a thread got from JoinEpoch and has not passed to LeaveEpoch is
\* neither deleted nor being swept.
C27_JoinedNodeStays ==
  /\ [][\A t \in Workers :
          pc[t] = "join_add" =>
            /\ pc'[t] = "inop" =>
                 /\ epoch_p[t] \notin en_deleted
                 /\ active_thread_count[epoch_p[t]] >= 0
            /\ (epoch_p[t] \notin en_deleted /\ active_thread_count[epoch_p[t]] < 0)
                 => pc'[t] \in {"join_add", "join_retry"}]_vars
  /\ [](em_pc \in {"run", "join"} =>
          \A t \in Workers :
            (t \in inOp /\ pc[t] # "crashed") =>
               /\ epoch_p[t] \notin en_deleted
               /\ ce_pc \in {"ce_walk", "ce_delete"} => head_epoch_p # epoch_p[t])

\* C29: under every interleaving of JoinEpoch with the ticks of the cleaner,
\* the fetch_add of JoinEpoch is applied to an epoch node that was not
\* deleted: a thread that leaves the increment held a live snapshot.
C29_JoinIncrementsLiveNode ==
  [][\A t \in Workers :
       (pc[t] = "join_add" /\ pc'[t] # "join_add") => epoch_p[t] \notin en_deleted]_vars

\* The threads that got the epoch node e from JoinEpoch and have not passed
\* it to LeaveEpoch.
JoinedIn(e) == {t \in Workers : t \in inOp /\ epoch_p[t] = e}

\* The cleaner has lowered the counter of the head epoch by MAX_THREAD_COUNT
\* and has neither added it back nor deleted the node.
LockWindow(e) == e = head_epoch_p /\ ce_pc \in {"ce_restore", "ce_walk", "ce_delete"}

\* C28: while the cleaner thread may run, the active_thread_count of every
\* epoch node that is not deleted and not inside the cleaner's lock window
\* is the number of threads that joined it and have not left, also after a
\* ClearEpoch that gave up because a thread had sneaked in (so that a
\* non-tail epoch left by all its joiners reads 0 and is reclaimed).
C28_CountersAccurate ==
  em_pc \in {"run", "join"} =>
    \A e \in 1..ealloc :
      (e \notin en_deleted /\ ~LockWindow(e)) =>
         active_thread_count[e] = Cardinality(JoinedIn(e))

\* C30: when a thread that is inside an epoch (it joined and has not left)
\* completes the CAS of AddGarbageNode, the epoch node it links onto is not
\* deleted and not locked by the cleaner, whatever current_epoch_p did during
\* the call, and the list of that node becomes the payload followed by all
\* the entries the list held, those added concurrently included.
C30_RetireInsideEpochLinksLive ==
  [][\A t \in Workers :
       (pc[t] = "eadd_cas" /\ t \in inOp /\ pc'[t] # "eadd_cas") =>
          /\ pc'[t] = "inop"
          /\ add_epoch_p[t] \notin en_deleted
          /\ ~LockWindow(add_epoch_p[t])
          /\ garbage_list_p'[add_epoch_p[t]] =
               <<garbage_node_p[t]>> \o garbage_list_p[add_epoch_p[t]]]_vars

\* C31: whenever ClearEpoch is about to load the counter of the head epoch
\* (the head is not the current epoch), the counter is not negative: the
\* assertion of line 563 holds, also after a sweep that locked the head and
\* restored it.  ClearEpoch also runs from the destructor, where the current
\* epoch is the null pointer.
C31_SweepLoadsNonNegative ==
  (ce_pc = "ce_load" /\ head_epoch_p # current_epoch_p /\ head_epoch_p # Null)
     => active_thread_count[head_epoch_p] >= 0

\* The manager has not reached the part of its destructor that resets
\* current_epoch_p (line 188).
BeforeDestruction == em_pc \in {"init", "run", "join"}

\* The epoch nodes linked from head_epoch_p.
EpochList == EChain(head_epoch_p, MaxEpochNodes + 1)

SweepStep == em_pc \in {"run", "join"} /\ ce_pc' # ce_pc /\ ce_pc # "ce_done"

\* C33: ClearEpoch reclaims in list order and stops at the first epoch whose
\* counter is not zero.  Only the garbage of the head epoch is freed and only
\* the head epoch is deleted, the head then moving to its successor; no
\* garbage is freed while a thread is inside an epoch older than the head; a
\* sweep that meets a non-zero counter at the head ends there, and a sweep
\* that ends leaves the head, the list, the garbage and the set of deleted
\* nodes as they were, the counters of the other epochs unchanged and the
\* counter of the head not locked.
C33_SweepInOrder ==
  [][SweepStep =>
       /\ freed' # freed =>
            /\ \A p \in Payloads :
                 freed'[p] # freed[p] =>
                   \E i \in 1..Len(garbage_list_p[head_epoch_p]) :
                      garbage_list_p[head_epoch_p][i] = p
            /\ \A t \in Workers :
                 t \in inOp => ~(epoch_p[t] < head_epoch_p)
       /\ en_deleted' # en_deleted =>
            /\ en_deleted' = en_deleted \cup {head_epoch_p}
            /\ head_epoch_p' = en_next[head_epoch_p]
       /\ (ce_pc = "ce_load" /\ head_epoch_p # current_epoch_p
             /\ active_thread_count[head_epoch_p] # 0) => ce_pc' = "ce_done"
       /\ ce_pc' = "ce_done" =>
            /\ <<head_epoch_p, en_next, garbage_list_p, en_deleted, freed>>'
                 = <<head_epoch_p, en_next, garbage_list_p, en_deleted, freed>>
            /\ \A e \in EpochNodes \ {head_epoch_p} :
                 active_thread_count'[e] = active_thread_count[e]
            /\ IF ce_pc = "ce_restore"
                 THEN active_thread_count'[head_epoch_p] >= 0
                 ELSE active_thread_count'[head_epoch_p]
                        = active_thread_count[head_epoch_p]]_vars

\* A reclamation pass of the collector thread is under way: GotoNextEpoch
\* and DoGC in the local manager, PerformGarbageCollection (ClearEpoch, then
\* CreateNewEpoch) in the global one.
LocalPass == gc_pc \in {"goto", "gc_min", "gc_head", "gc_loop"}

GlobalPass ==
  ce_pc \in {"ce_load", "ce_lock", "ce_restore", "ce_walk", "ce_delete", "ce_done"}

\* C34: with the internal collector thread, reclamation passes do not
\* overlap each other or the destructor's drain.  A pass is begun only by
\* the collector thread at a wake-up, when no pass is under way; the
\* destructor begins FreeAllGarbage, and takes over ClearEpoch, only after
\* the collector thread has exited, and the collector takes no step
\* afterwards.
C34_PassesExclusive ==
  [][/\ (LocalPass' /\ ~LocalPass) => (gc_pc = "check" /\ main_pc' \in {"run", "join"})
     /\ main_pc' \in {"drain", "done"} => (gc_pc = "exited" /\ gc_pc' = "exited")
     /\ (GlobalPass' /\ ~GlobalPass) =>
           \/ ce_pc = "check" /\ em_pc' \in {"run", "join"}
           \/ ce_pc = "exited" /\ em_pc = "join" /\ em_pc' = "clear"
     /\ em_pc \in {"clear", "reclear", "done"} =>
           /\ ce_pc # "check" /\ ce_pc' # "check"
           /\ ce_pc' = "ce_load" => (ce_pc = "ce_delete" \/ em_pc' = "reclear")]_vars

\* C34 witness: the destructor of the local manager is about to drain a list
\* that still holds a wrapper, and the destructor of the global manager has
\* taken over ClearEpoch with an epoch left to sweep.
C34_Witness ==
  \/ main_pc = "drain" /\ garbage_head_p # Null
  \/ em_pc = "clear" /\ ce_pc = "ce_lock"

\* C35: when the append CAS of AllocateChunk fails (another thread extended
\* the chain), Allocate goes on with the append tail it reloaded, a chunk
\* that exists, and no thread ever calls Chunk::Allocate through a null
\* chunk pointer.
C35_RetryOnReloadedTail ==
  /\ [][\A t \in PoolThreads :
          (pc[t] = "ac_cas" /\ pc'[t] = "ca_load")
             => (pool_chunk_p'[t] = appending_tail_p /\ pool_chunk_p'[t] # Null)]_vars
  /\ [](\A t \in PoolThreads : pc[t] = "ca_load" => pool_chunk_p[t] # Null)

\* C36: a chunk is appended only behind a tail that cannot hold the pending
\* request: when the append CAS of a thread succeeds, the chunk it appends
\* to, the append tail at that moment, has no room for the size the thread
\* asked for.
C36_AppendOnlyBehindFullTail ==
  [][\A t \in PoolThreads :
       (pc[t] = "ac_cas" /\ pc'[t] = "ac_store")
          => /\ tail_p[t] = appending_tail_p
             /\ ChunkFull(tail_p[t], header[tail_p[t]], pool_sz[t])]_vars

\* The chunks linked from c through next_p, c first.
RECURSIVE CChain(_, _)
CChain(c, fuel) ==
  IF c = Null \/ fuel = 0 THEN <<>> ELSE <<c>> \o CChain(chunk_next_p[c], fuel - 1)

ChunkList == CChain(scanning_head_p, MaxChunks + 1)

\* A thread is between its successful append CAS and its store of the tail.
Storing == \E t \in PoolThreads : pc[t] = "ac_store"

\* C37: the chunks form one list from scanning_head_p that holds every chunk
\* whose append CAS succeeded, each once; appending_tail_p is the last chunk
\* of the list, or the one before it exactly while a thread is between its
\* successful CAS and its store of the tail; appending_tail_p only moves to
\* the successor of the chunk it points to; a next_p that was set is never
\* changed.
C37_ChunkChainShape ==
  /\ [](/\ Len(ChunkList) = nchunk
        /\ \A c \in 1..nchunk : \E i \in 1..nchunk : ChunkList[i] = c
        /\ IF Storing
             THEN nchunk > 1 /\ appending_tail_p = ChunkList[nchunk - 1]
             ELSE appending_tail_p = ChunkList[nchunk])
  /\ [][/\ appending_tail_p' # appending_tail_p
             => appending_tail_p' = chunk_next_p[appending_tail_p]
        /\ \A c \in Chunks :
             chunk_next_p[c] # Null => chunk_next_p'[c] = chunk_next_p[c]]_vars

\* C37 witness: three chunks are linked, the third by a thread that has not
\* yet stored the tail, while the other thread has lost an append CAS.
C37_Witness ==
  /\ nchunk = 3
  /\ appending_tail_p = 2
  /\ \E t, u \in PoolThreads :
       /\ pc[t] = "ac_store"
       /\ pc[u] \in {"ca_load", "null_deref"} /\ pool_chunk_p[u] = Null

\* C38: the offset of a chunk header never decreases, whatever Allocate and
\* Free calls run, and never exceeds the capacity of the chunk; every
\* allocation handed out, back-pointer included, lies below the offset of
\* its chunk, hence inside the data region.
C38_OffsetMonotoneInBounds ==
  /\ [][\A c \in Chunks : header'[c].offset >= header[c].offset]_vars
  /\ [](/\ \A c \in 1..nchunk : header[c].offset <= chunk_cap[c]
        /\ \A i \in 1..Len(mems) :
             /\ mems[i].offset >= 0
             /\ mems[i].offset + MemSize + mems[i].sz
                  <= header[mems[i].chunk_p].offset)

\* C38 witness: a chunk is filled to its capacity by two allocations, one of
\* which has been freed again.
C38_Witness ==
  \E c \in 1..nchunk :
    /\ header[c].offset = chunk_cap[c]
    /\ Cardinality(MemsOf(c, {"live", "freeing", "freed"})) >= 2
    /\ MemsOf(c, {"freed"}) # {}

\* C39: Chunk::Allocate on a chunk that cannot hold the request, its offset
\* plus the size plus the 8 bytes of the back-pointer passing the end of the
\* data region, changes nothing: a turn of its loop on such a chunk leaves
\* every header and the allocations as they are, and it either returns
\* nullptr or, when the header it expected was stale and still had room,
\* fails its CAS and takes the present header, on which its next turn
\* returns nullptr.
C39_FullChunkRefuses ==
  [][\A t \in PoolThreads :
       LET c == pool_chunk_p[t] IN
         (/\ pc[t] = "ca_cas"
          /\ <<pc[t], expected_header[t]>>' # <<pc[t], expected_header[t]>>
          /\ header[c].offset + pool_sz[t] + MemSize > chunk_cap[c])
            => /\ header' = header
               /\ mems' = mems
               /\ IF expected_header[t].offset + pool_sz[t] + MemSize > chunk_cap[c]
                    THEN pc'[t] = "ac_load"
                    ELSE pc'[t] = "ca_cas" /\ expected_header'[t] = header[c]]_vars

\* C39 witness: Chunk::Allocate has just returned nullptr from a chunk that
\* holds an allocation and whose free room would hold the request without
\* its back-pointer.
C39_Witness ==
  \E t \in PoolThreads :
    /\ pc[t] = "ac_load"
    /\ header[pool_chunk_p[t]].offset > 0
    /\ expected_header[t] = header[pool_chunk_p[t]]
    /\ header[pool_chunk_p[t]].offset + pool_sz[t] <= chunk_cap[pool_chunk_p[t]]
    /\ \E i \in 1..Len(mems) : mems[i].chunk_p = pool_chunk_p[t]

\* C40: Free(p) returns, the other threads completing only finitely many
\* operations, and its successful CAS lowers by exactly one the ref_count
\* of the chunk p was allocated from, keeps that chunk's offset and leaves
\* the header of every other chunk as it is; loading the header and a turn
\* of the loop whose CAS fails change no header.
C40_FreeDecrementsOnce ==
  /\ [][\A t \in PoolThreads :
          /\ (pc[t] = "fr_cas" /\ pc'[t] = "idle") =>
                LET c == mems[free_p[t]].chunk_p IN
                  /\ header'[c].ref_count = header[c].ref_count - 1
                  /\ header'[c].offset = header[c].offset
                  /\ \A d \in Chunks \ {c} : header'[d] = header[d]
          /\ (pc'[t] = "fr_cas" /\ <<pc[t], expected_header[t]>>' # <<pc[t], expected_header[t]>>)
                => header' = header]_vars
  /\ \A t \in PoolThreads : (pc[t] = "fr_cas") ~> (pc[t] = "idle")

\* C40 witness: a Free is about to fail its CAS, the header of its chunk
\* having changed since the Free loaded it, while a second chunk holds a
\* live allocation.
C40_Witness ==
  \E t \in PoolThreads :
    /\ pc[t] = "fr_cas"
    /\ header[mems[free_p[t]].chunk_p] # expected_header[t]
    /\ \E c \in Chunks : c # mems[free_p[t]].chunk_p /\ MemsOf(c, {"live"}) # {}

====
